---- MODULE Spec2Model ----
(***************************************************************************)
(* State-machine model of the MQTT client engine of general-mqtt           *)
(* (src/src/mqtt-client/ClientImplementation.ts and Pinger.ts).            *)
(*                                                                         *)
(* The client is single threaded: every user API call, transport callback  *)
(* and timer callback runs to completion, so each of them is one action.   *)
(* The private methods are operators from a state record to a state        *)
(* record, composed in the order in which the code calls them.             *)
(*                                                                         *)
(* Abstractions:                                                           *)
(*  - an application message (MqttMessage, Message.ts:125-135) is the      *)
(*    record of its fields; its payload is a token that identifies it;     *)
(*  - a frame written to the transport is the wire message that was        *)
(*    encoded; the inbound frames are well-formed packets, one per         *)
(*    onmessage event, in any order the peer likes;                        *)
(*  - a timer is pending or not; time is not measured, the delay passed    *)
(*    to setTimeout is recorded where a property needs it;                 *)
(*  - user callbacks are recorded in the trace of the step and return      *)
(*    without calling back into the client.                                *)
(*                                                                         *)
(* The codec (utils: decodeMessage, encodeMBI; WireMessage.encode) and     *)
(* _deframeMessages are modelled on bytes in a section of their own, with  *)
(* the accessors of Message (Message.ts) as they are written; the actions  *)
(* of the client take the packets as decoded.  restore(), which rebuilds a *)
(* Message through the same accessors, is modelled with them as well.  A   *)
(* frame of several packets is handled by SocketFrame.                     *)
(***************************************************************************)
EXTENDS Integers, Sequences, FiniteSets, TLC

(***************************************************************************)
(* Bounds of the model.                                                    *)
(***************************************************************************)
MaxUris == 2        \* longest connectOptions.uris list
MaxSend == 2        \* number of send() calls with a message
MaxInId == 2        \* inbound packets carry identifiers 1..MaxInId
MaxSubscribe == 1   \* number of subscribe()/unsubscribe() calls
MaxQueue == 1       \* packets queued in _msg_queue while not connected
MaxIdentifier == 4  \* maxMessageIdentifier scaled down, for the identifier allocator
MaxTopics == 2      \* topic filters of one subscribe(), return codes of one SUBACK
MaxBuffer == 1      \* disconnectedBufferSize as the application sets it, for BUFFER_FULL

(***************************************************************************)
(* Program constants.                                                      *)
(***************************************************************************)
maxMessageIdentifier == 65536
MaxReconnectInterval == 128
disconnectedBufferSize == 5000
DefaultKeepAliveInterval == 60

MESSAGE_TYPE ==
  [CONNECT |-> 1, CONNACK |-> 2, PUBLISH |-> 3, PUBACK |-> 4, PUBREC |-> 5,
   PUBREL |-> 6, PUBCOMP |-> 7, SUBSCRIBE |-> 8, SUBACK |-> 9,
   UNSUBSCRIBE |-> 10, UNSUBACK |-> 11, PINGREQ |-> 12, PINGRESP |-> 13,
   DISCONNECT |-> 14]

ERROR ==
  [OK |-> 0, CONNECT_TIMEOUT |-> 1, SUBSCRIBE_TIMEOUT |-> 2,
   UNSUBSCRIBE_TIMEOUT |-> 3, PING_TIMEOUT |-> 4, INTERNAL_ERROR |-> 5,
   CONNACK_RETURNCODE |-> 6, SOCKET_ERROR |-> 7, SOCKET_CLOSE |-> 8,
   INVALID_STATE |-> 11, INVALID_STORED_DATA |-> 15,
   INVALID_MQTT_MESSAGE_TYPE |-> 16, BUFFER_FULL |-> 18]

\* errorCode of a call _disconnected() without arguments
Undefined == -1

(***************************************************************************)
(* Wire messages.  Fields a packet type does not use are 0 / FALSE / "".   *)
(* messageIdentifier = 0 and sequence = 0 stand for undefined.             *)
(* onDispatched names the hook attached to the message: "" (none),         *)
(* "onMessageDelivered" (send, QoS 0) or "_disconnected" (disconnect).     *)
(* returnCode is the return code of a CONNACK, returnCodes the return-code *)
(* bytes of a SUBACK (its returnCode, a Uint8Array); topics is the number  *)
(* of topic filters of a SUBSCRIBE or UNSUBSCRIBE; timeOut is 0 or names   *)
(* the timer that subscribe()/unsubscribe() attached to the request.       *)
(***************************************************************************)
NoMsg ==
  [type |-> 0, messageIdentifier |-> 0, qos |-> 0, payload |-> 0,
   sequence |-> 0, pubRecReceived |-> FALSE, duplicate |-> FALSE,
   returnCode |-> 0, returnCodes |-> <<>>, topics |-> 0, timeOut |-> 0,
   onDispatched |-> ""]

WireMessage(type, messageIdentifier) ==
  [NoMsg EXCEPT !.type = type, !.messageIdentifier = messageIdentifier]

PublishMessage(payload, qos) ==
  [NoMsg EXCEPT !.type = MESSAGE_TYPE.PUBLISH, !.payload = payload, !.qos = qos]

\* An entry of the trace of a step: a call, a frame written, a callback.
Ev(ev, m, n) == [ev |-> ev, m |-> m, n |-> n]

NoSocket == [state |-> "none", url |-> 0, protocol |-> 0]
NoPinger == [isNull |-> TRUE, keepAliveInterval |-> 0, isReset |-> FALSE, timeout |-> FALSE]
EmptyMap == [k \in {} |-> NoMsg]

VARIABLES
  connected,               \* this.connected
  socket,                  \* this.socket: the transport and its readyState
  connectOptions,          \* this.connectOptions
  hostIndex,               \* this.hostIndex (0 also stands for undefined)
  _wsuri,                  \* this._wsuri: index of the URI last connected to
  _reconnecting,           \* this._reconnecting
  _reconnectTimeout,       \* this._reconnectTimeout: 0, or the delay of the pending timer
  _connectTimeout,         \* this._connectTimeout: the connect timer is pending
  _reconnectInterval,      \* this._reconnectInterval
  _msg_queue,              \* this._msg_queue
  _buffered_msg_queue,     \* this._buffered_msg_queue
  _sentMessages,           \* this._sentMessages (Outbox)
  _receivedMessages,       \* this._receivedMessages (Inbox)
  storage,                 \* this.storage: <<prefix, id>> -> stored record
  _message_identifier,     \* this._message_identifier
  _sequence,               \* this._sequence
  sendPinger,              \* this.sendPinger
  stalePingers,            \* isReset flags of replaced Pingers whose timer is still pending
  disconnectedPublishing,  \* this.disconnectedPublishing
  timeOuts,                \* the pending timers of subscribe()/unsubscribe() requests
  receiveBuffer,           \* this.receiveBuffer: the bytes of a partial frame (<<>> for null)
  input,                   \* the argument drawn for the codec functions (bytes or a number)
  output,                  \* what the codec functions have returned so far
  trace,                   \* what the last step did: call, frames written, callbacks
  sendCount,               \* number of messages handed to send() so far
  subscribeCount,          \* number of subscribe()/unsubscribe() calls so far
  delivered                \* payload -> number of onMessageDelivered calls for it

vars ==
  <<connected, socket, connectOptions, hostIndex, _wsuri, _reconnecting,
    _reconnectTimeout, _connectTimeout, _reconnectInterval, _msg_queue,
    _buffered_msg_queue, _sentMessages, _receivedMessages, storage,
    _message_identifier, _sequence, sendPinger, stalePingers,
    disconnectedPublishing, timeOuts, receiveBuffer, input, output, trace,
    sendCount, subscribeCount, delivered>>

\* The program state as one record, on which the methods below operate.
St ==
  [connected |-> connected, socket |-> socket, connectOptions |-> connectOptions,
   hostIndex |-> hostIndex, _wsuri |-> _wsuri, _reconnecting |-> _reconnecting,
   _reconnectTimeout |-> _reconnectTimeout, _connectTimeout |-> _connectTimeout,
   _reconnectInterval |-> _reconnectInterval, _msg_queue |-> _msg_queue,
   _buffered_msg_queue |-> _buffered_msg_queue, _sentMessages |-> _sentMessages,
   _receivedMessages |-> _receivedMessages, storage |-> storage,
   _message_identifier |-> _message_identifier, _sequence |-> _sequence,
   sendPinger |-> sendPinger, stalePingers |-> stalePingers,
   disconnectedPublishing |-> disconnectedPublishing, timeOuts |-> timeOuts,
   receiveBuffer |-> receiveBuffer, input |-> input, output |-> output,
   trace |-> <<>>,
   sendCount |-> sendCount, subscribeCount |-> subscribeCount,
   delivered |-> delivered]

Commit(s) ==
  /\ connected' = s.connected
  /\ socket' = s.socket
  /\ connectOptions' = s.connectOptions
  /\ hostIndex' = s.hostIndex
  /\ _wsuri' = s._wsuri
  /\ _reconnecting' = s._reconnecting
  /\ _reconnectTimeout' = s._reconnectTimeout
  /\ _connectTimeout' = s._connectTimeout
  /\ _reconnectInterval' = s._reconnectInterval
  /\ _msg_queue' = s._msg_queue
  /\ _buffered_msg_queue' = s._buffered_msg_queue
  /\ _sentMessages' = s._sentMessages
  /\ _receivedMessages' = s._receivedMessages
  /\ storage' = s.storage
  /\ _message_identifier' = s._message_identifier
  /\ _sequence' = s._sequence
  /\ sendPinger' = s.sendPinger
  /\ stalePingers' = s.stalePingers
  /\ disconnectedPublishing' = s.disconnectedPublishing
  /\ timeOuts' = s.timeOuts
  /\ receiveBuffer' = s.receiveBuffer
  /\ input' = s.input
  /\ output' = s.output
  /\ trace' = s.trace
  /\ sendCount' = s.sendCount
  /\ subscribeCount' = s.subscribeCount
  /\ delivered' = s.delivered

Log(s, e) == [s EXCEPT !.trace = Append(@, e)]

\* A step that begins with the call or event e.
Begin(e) == Log(St, e)

\* Mutation of Remove: the key stays.
RemoveNothing(f, k) == f

Remove(f, k) == [x \in (DOMAIN f) \ {k} |-> f[x]]
Put(f, k, v) == [x \in (DOMAIN f) \cup {k} |-> IF x = k THEN v ELSE f[x]]

(***************************************************************************)
(* Pinger (Pinger.ts)                                                      *)
(***************************************************************************)
Pinger(keepAliveInterval) ==
  [isNull |-> FALSE, keepAliveInterval |-> keepAliveInterval * 1000,
   isReset |-> FALSE, timeout |-> FALSE]

Pinger_cancel(s) ==
  IF s.sendPinger.isNull THEN s
  ELSE [s EXCEPT !.sendPinger.timeout = FALSE]

\* Mutation of Pinger_reset: the timer restarts, the Pinger is not marked as reset.
Pinger_restart(s) ==
  IF s.sendPinger.isNull THEN s
  ELSE [s EXCEPT !.sendPinger.timeout = (s.sendPinger.keepAliveInterval > 0)]

Pinger_reset(s) ==
  IF s.sendPinger.isNull THEN s
  ELSE [s EXCEPT !.sendPinger.isReset = TRUE,
                 !.sendPinger.timeout = (s.sendPinger.keepAliveInterval > 0)]

(***************************************************************************)
(* ClientImplementation: transport and connection life cycle               *)
(***************************************************************************)
\* this.socket && this.socket.send(wireMessage.encode()); sendPinger.reset()
_socket_send(s, wireMessage) ==
  Pinger_reset(IF s.socket.state # "none"
               THEN Log(s, Ev("send", wireMessage, 0))
               ELSE s)

\* The URI that index i of the list stands for; 0 is this.uri when there is no list.
UriCount(s) == s.connectOptions.uris

_doConnect(s, wsurl) ==
  LET leaked == IF (~s.sendPinger.isNull) /\ s.sendPinger.timeout
                THEN {s.sendPinger.isReset} ELSE {}
      s1 == [s EXCEPT
               !._wsuri = wsurl,
               !.connected = FALSE,
               !.socket = [state |-> "connecting", url |-> wsurl,
                           protocol |-> IF s.connectOptions.mqttVersion < 4 THEN 3 ELSE 4],
               !.sendPinger = Pinger(s.connectOptions.keepAliveInterval),
               !.stalePingers = @ \cup leaked,
               !._connectTimeout = TRUE]
  IN  Log(s1, Ev("new WebSocket", NoMsg, wsurl))

_reconnect(s) ==
  IF ~s.connected
  THEN LET s1 == Pinger_cancel([s EXCEPT !._reconnecting = TRUE])
           s2 == [s1 EXCEPT !._reconnectInterval =
                    IF @ < MaxReconnectInterval THEN @ * 2 ELSE @]
           s3 == IF UriCount(s2) > 0 THEN [s2 EXCEPT !.hostIndex = 0] ELSE s2
       IN  _doConnect(s3, 0)
  ELSE s

\* if (uris && hostIndex && hostIndex < uris.length - 1)
HasNextHost(s) ==
  UriCount(s) > 0 /\ s.hostIndex # 0 /\ s.hostIndex < UriCount(s) - 1

\* Mutation of ShouldFallBack: the user's own choice of version 4 falls back too.
FallBackAlways(s) == s.connectOptions.mqttVersion = 4

\* if (this.connectOptions.mqttVersion === 4 && this.connectOptions.mqttVersionExplicit === false)
ShouldFallBack(s) ==
  s.connectOptions.mqttVersion = 4 /\ ~s.connectOptions.mqttVersionExplicit

\* Mutation of HadConnection: a teardown never finds the session established.
NeverHadConnection(s) == FALSE

\* if (this.connected): the session had been established when it is torn down
HadConnection(s) == s.connected

\* Mutation of ClearBuffers: the Outbox and the stored records are cleared too.
ClearEverything(s) ==
  [s EXCEPT !._msg_queue = <<>>, !._buffered_msg_queue = <<>>,
            !._sentMessages = EmptyMap, !.storage = EmptyMap]

\* Clear message buffers.
ClearBuffers(s) == [s EXCEPT !._msg_queue = <<>>, !._buffered_msg_queue = <<>>]

_disconnected(s, errorCode) ==
  LET s0 == Log(s, Ev("_disconnected", NoMsg, errorCode)) IN
  IF errorCode # Undefined /\ s0._reconnecting
  THEN \* Continue automatic _reconnect process
       [s0 EXCEPT !._reconnectTimeout = s0._reconnectInterval]
  ELSE
    LET s1 == Pinger_cancel(s0)
        s2 == ClearBuffers([s1 EXCEPT !._connectTimeout = FALSE])
        s3 == IF s2.socket.state # "none"
              THEN [Log(s2, Ev("close", NoMsg, s2.socket.url)) EXCEPT !.socket = NoSocket]
              ELSE s2
        code == IF errorCode = Undefined THEN ERROR.OK ELSE errorCode
    IN
    IF HasNextHost(s3)
    THEN \* Try the next host.
         _doConnect([s3 EXCEPT !.hostIndex = @ + 1], s3.hostIndex + 1)
    ELSE IF HadConnection(s3)
    THEN LET s4 == Log([s3 EXCEPT !.connected = FALSE],
                       Ev("onConnectionLost", NoMsg, code))
         IN  IF code # ERROR.OK /\ s4.connectOptions.reconnect
             THEN _reconnect([s4 EXCEPT !._reconnectInterval = 1])
             ELSE s4
    ELSE IF ShouldFallBack(s3)
    THEN LET s4 == [s3 EXCEPT !.connectOptions.mqttVersion = 3]
             s5 == IF UriCount(s4) > 0 THEN [s4 EXCEPT !.hostIndex = 0] ELSE s4
         IN  _doConnect(s5, 0)
    ELSE Log(s3, Ev("onFailure", NoMsg, code))

(***************************************************************************)
(* ClientImplementation: outbound queue, Outbox and persistence            *)
(***************************************************************************)
\* The user's onMessageDelivered(message), counted per payload (at most 2 are told apart).
Deliver(s, message) ==
  LET s1 == Log(s, Ev("onMessageDelivered", message, 0))
  IN  IF message.payload \in DOMAIN s.delivered
      THEN [s1 EXCEPT !.delivered[message.payload] = IF @ < 2 THEN @ + 1 ELSE @]
      ELSE s1

RECURSIVE _process_queue(_)
_process_queue(s) ==
  IF s._msg_queue = <<>> THEN s
  ELSE LET message == s._msg_queue[Len(s._msg_queue)]
           s1 == [s EXCEPT !._msg_queue = SubSeq(@, 1, Len(@) - 1)]
           s2 == _socket_send(s1, message)
           s3 == CASE message.onDispatched = "onMessageDelivered" -> Deliver(s2, message)
                   [] message.onDispatched = "_disconnected" -> _disconnected(s2, Undefined)
                   [] OTHER -> s2
       IN  _process_queue(s3)

\* Mutation of _schedule_message: the message is added at the end the queue is popped from.
ScheduleLast(s, message) ==
  LET s1 == [Log(s, Ev("schedule", message, 0)) EXCEPT !._msg_queue = @ \o <<message>>]
  IN  IF s1.connected THEN _process_queue(s1) ELSE s1

_schedule_message(s, message) ==
  LET s1 == [Log(s, Ev("schedule", message, 0)) EXCEPT !._msg_queue = <<message>> \o @]
  IN  IF s1.connected THEN _process_queue(s1) ELSE s1

\* The record written under prefix + this._localKey + messageIdentifier.
StoredMessage(prefix, wireMessage) ==
  [type |-> wireMessage.type, messageIdentifier |-> wireMessage.messageIdentifier,
   version |-> 1, pubRecReceived |-> wireMessage.pubRecReceived,
   payloadHex |-> wireMessage.payload, qos |-> wireMessage.qos,
   duplicate |-> wireMessage.duplicate,
   sequence |-> IF prefix = "Sent:" THEN wireMessage.sequence ELSE 0]

\* store() of a PUBLISH; the result is the state and the (mutated) message.
\* For any other type store() throws INVALID_STORED_DATA: see StoreThrows.
StoreThrows(wireMessage) == wireMessage.type # MESSAGE_TYPE.PUBLISH

store(s, prefix, wireMessage) ==
  LET fresh == prefix = "Sent:" /\ wireMessage.sequence = 0
      m == IF fresh THEN [wireMessage EXCEPT !.sequence = s._sequence + 1] ELSE wireMessage
      s1 == IF fresh THEN [s EXCEPT !._sequence = @ + 1] ELSE s
  IN  [s |-> [s1 EXCEPT !.storage =
                 Put(@, <<prefix, m.messageIdentifier>>, StoredMessage(prefix, m))],
       m |-> m]

\* Mutation of FreeIdentifier: the identifier is taken as it stands.
SameIdentifier(sent, id) == id

\* while (this._sentMessages[this._message_identifier] !== undefined) this._message_identifier++
RECURSIVE FreeIdentifier(_, _)
FreeIdentifier(sent, id) ==
  IF id \in DOMAIN sent THEN FreeIdentifier(sent, id + 1) ELSE id

\* if (messageCount > this.maxMessageIdentifier) throw, max being this.maxMessageIdentifier
TooManyMessagesWithin(s, max) == Cardinality(DOMAIN s._sentMessages) > max

TooManyMessages(s) == TooManyMessagesWithin(s, maxMessageIdentifier)

\* _requires_ack with max for this.maxMessageIdentifier.
\* The result is the state and the message with its identifier (and sequence).
RequiresAckWithin(s, wireMessage, max) ==
  LET id == FreeIdentifier(s._sentMessages, s._message_identifier)
      m0 == [wireMessage EXCEPT !.messageIdentifier = id]
      r == IF m0.type = MESSAGE_TYPE.PUBLISH
           THEN store(s, "Sent:", m0)
           ELSE [s |-> s, m |-> m0]
  IN  [s |-> [r.s EXCEPT !._sentMessages = Put(@, id, r.m),
                         !._message_identifier = IF id = max THEN 1 ELSE id],
       m |-> r.m]

_requires_ack(s, wireMessage) == RequiresAckWithin(s, wireMessage, maxMessageIdentifier)

Throw(s, code) == Log(s, Ev("throw", NoMsg, code))

(***************************************************************************)
(* ClientImplementation: the public API                                    *)
(***************************************************************************)
\* _formatConnectOptions: the defaults of the options the user left out.
\* mqttVersion 0 and keepAliveInterval -1 stand for "not given".
FormatConnectOptions(uris, cleanSession, reconnect, mqttVersion, keepAliveInterval) ==
  [uris |-> uris, cleanSession |-> cleanSession, reconnect |-> reconnect,
   mqttVersion |-> IF mqttVersion = 0 THEN 4 ELSE mqttVersion,
   mqttVersionExplicit |-> mqttVersion # 0,
   keepAliveInterval |-> IF keepAliveInterval = -1 THEN DefaultKeepAliveInterval
                         ELSE keepAliveInterval]

\* Mutation of connect: a reconnect in progress is cancelled before the state is tested.
connectCancelsFirst(s, options) ==
  LET s1 == IF s._reconnecting
            THEN [s EXCEPT !._reconnectTimeout = 0, !._reconnecting = FALSE]
            ELSE s
      s2 == [s1 EXCEPT !.connectOptions = options,
                       !._reconnectInterval = 1,
                       !._reconnecting = FALSE]
      s3 == IF options.uris > 0 THEN [s2 EXCEPT !.hostIndex = 0] ELSE s2
  IN  IF s1.connected \/ s1.socket.state # "none" THEN Throw(s1, ERROR.INVALID_STATE)
      ELSE _doConnect(s3, 0)

connect(s, options) ==
  IF s.connected THEN Throw(s, ERROR.INVALID_STATE)
  ELSE IF s.socket.state # "none" THEN Throw(s, ERROR.INVALID_STATE)
  ELSE LET s1 == IF s._reconnecting
                 THEN [s EXCEPT !._reconnectTimeout = 0, !._reconnecting = FALSE]
                 ELSE s
           s2 == [s1 EXCEPT !.connectOptions = options,
                            !._reconnectInterval = 1,
                            !._reconnecting = FALSE]
           s3 == IF options.uris > 0 THEN [s2 EXCEPT !.hostIndex = 0] ELSE s2
       IN  _doConnect(s3, 0)

\* Mutation of disconnect: the DISCONNECT carries no onDispatched hook.
disconnectUnhooked(s) ==
  LET s1 == IF s._reconnecting
            THEN [s EXCEPT !._reconnectTimeout = 0, !._reconnecting = FALSE]
            ELSE s
  IN  IF s1.socket.state = "none" THEN Throw(s1, ERROR.INVALID_STATE)
      ELSE _schedule_message(s1, WireMessage(MESSAGE_TYPE.DISCONNECT, 0))

disconnect(s) ==
  LET s1 == IF s._reconnecting
            THEN [s EXCEPT !._reconnectTimeout = 0, !._reconnecting = FALSE]
            ELSE s
  IN  IF s1.socket.state = "none" THEN Throw(s1, ERROR.INVALID_STATE)
      ELSE _schedule_message(s1,
             [WireMessage(MESSAGE_TYPE.DISCONNECT, 0) EXCEPT !.onDispatched = "_disconnected"])

\* send(topic, payload, qos) with bufferSize for this.disconnectedBufferSize:
\* the message is the one the call builds.
SendWithin(s, message, bufferSize) ==
  LET wireMessage == PublishMessage(message.payload, message.qos)
      counted == [s EXCEPT !.sendCount = @ + 1]
  IN
  IF s.connected
  THEN IF message.qos > 0
       THEN IF TooManyMessages(s) THEN Throw(s, ERROR.INTERNAL_ERROR)
            ELSE LET r == _requires_ack(counted, wireMessage)
                 IN  _schedule_message(r.s, r.m)
       ELSE _schedule_message(counted,
              [wireMessage EXCEPT !.onDispatched = "onMessageDelivered"])
  ELSE IF s._reconnecting /\ s.disconnectedPublishing
  THEN IF Cardinality(DOMAIN s._sentMessages) + Len(s._buffered_msg_queue)
            > bufferSize
       THEN Throw(s, ERROR.BUFFER_FULL)
       ELSE IF message.qos > 0
       THEN IF TooManyMessages(s) THEN Throw(s, ERROR.INTERNAL_ERROR)
            ELSE _requires_ack(counted, wireMessage).s
       ELSE [counted EXCEPT
               !._sequence = @ + 1,
               !._buffered_msg_queue =
                   <<[wireMessage EXCEPT !.sequence = s._sequence + 1]>> \o @]
  ELSE Throw(s, ERROR.INVALID_STATE)

send(s, message) == SendWithin(s, message, disconnectedBufferSize)

\* subscribe(filter, {onSuccess, onFailure, timeout}) and
\* unsubscribe(filter, {onSuccess, onFailure, timeout}): type is SUBSCRIBE or
\* UNSUBSCRIBE, topics the number of topic filters, and timeout tells whether
\* the timeout option is given.  The timer of the request is named by the
\* number of the call.
subscribe(s, type, topics, timeout) ==
  IF ~s.connected THEN Throw(s, ERROR.INVALID_STATE)
  ELSE LET request == s.subscribeCount + 1
           wireMessage == [WireMessage(type, 0) EXCEPT
                             !.topics = topics,
                             !.timeOut = IF timeout THEN request ELSE 0]
           s1 == [s EXCEPT !.subscribeCount = request,
                           !.timeOuts = IF timeout
                                        THEN @ \cup {[request |-> request, type |-> type]}
                                        ELSE @]
       IN  IF TooManyMessages(s1) THEN Throw(s1, ERROR.INTERNAL_ERROR)
           ELSE LET r == _requires_ack(s1, wireMessage)
                IN  _schedule_message(r.s, r.m)

(***************************************************************************)
(* ClientImplementation: inbound packets (_handleMessage)                  *)
(***************************************************************************)
_receiveMessage(s, wireMessage) == Log(s, Ev("onMessageArrived", wireMessage, 0))

\* Mutation of _receivePublish: every PUBLISH is delivered when it arrives.
ReceivePublishAtOnce(s, wireMessage) == _receiveMessage(s, wireMessage)

_receivePublish(s, wireMessage) ==
  CASE wireMessage.qos = 0 -> _receiveMessage(s, wireMessage)
    [] wireMessage.qos = 1 ->
         _receiveMessage(
           _schedule_message(s, WireMessage(MESSAGE_TYPE.PUBACK, wireMessage.messageIdentifier)),
           wireMessage)
    [] wireMessage.qos = 2 ->
         LET s1 == IF wireMessage.messageIdentifier # 0
                   THEN [s EXCEPT !._receivedMessages =
                           Put(@, wireMessage.messageIdentifier, wireMessage)]
                   ELSE s
             r == store(s1, "Received:", wireMessage)
         IN  _schedule_message(r.s, WireMessage(MESSAGE_TYPE.PUBREC, wireMessage.messageIdentifier))

\* for (key in table) this.storage.removeItem(prefix + this._localKey + table[key].messageIdentifier)
RemoveStored(stored, prefix, table) ==
  LET gone == {<<prefix, table[k].messageIdentifier>> : k \in DOMAIN table}
  IN  [x \in (DOMAIN stored) \ gone |-> stored[x]]

\* CONNACK: If we have started using clean session then clear up the local state.
CleanSession(s) ==
  IF s.connectOptions.cleanSession
  THEN [s EXCEPT !.storage = RemoveStored(RemoveStored(@, "Sent:", s._sentMessages),
                                          "Received:", s._receivedMessages),
                 !._sentMessages = EmptyMap,
                 !._receivedMessages = EmptyMap]
  ELSE s

RECURSIVE KeysAscending(_)
KeysAscending(S) ==
  IF S = {} THEN <<>>
  ELSE LET k == CHOOSE x \in S : \A y \in S : x <= y
       IN  <<k>> \o KeysAscending(S \ {k})

Reverse(q) == [i \in 1..Len(q) |-> q[Len(q) + 1 - i]]

\* Mutation of SequencedMessages: only the PUBLISH entries of the Outbox are
\* collected.
SequencedPublishes(s) ==
  LET keys == KeysAscending({id \in DOMAIN s._sentMessages :
                               s._sentMessages[id].type = MESSAGE_TYPE.PUBLISH})
  IN  [i \in 1..Len(keys) |-> s._sentMessages[keys[i]]] \o Reverse(s._buffered_msg_queue)

\* The list the CONNACK handler collects: the Outbox in key order, then the
\* buffered messages in the order in which pop() returns them.
SequencedMessages(s) ==
  LET keys == KeysAscending(DOMAIN s._sentMessages)
  IN  [i \in 1..Len(keys) |-> s._sentMessages[keys[i]]] \o Reverse(s._buffered_msg_queue)

\* sort(function (a, b) { return a.sequence - b.sequence })
InsertBySequence(sorted, m) ==
  LET k == Cardinality({i \in 1..Len(sorted) : sorted[i].sequence <= m.sequence})
  IN  SubSeq(sorted, 1, k) \o <<m>> \o SubSeq(sorted, k + 1, Len(sorted))

RECURSIVE SortBySequence(_)
SortBySequence(list) ==
  IF list = <<>> THEN <<>>
  ELSE InsertBySequence(SortBySequence(SubSeq(list, 1, Len(list) - 1)), list[Len(list)])

ListPermutations(list) ==
  {[i \in 1..Len(list) |-> list[p[i]]] :
     p \in {q \in [1..Len(list) -> 1..Len(list)] :
              \A i, j \in 1..Len(list) : q[i] = q[j] => i = j}}

\* An entry without sequence (SUBSCRIBE, UNSUBSCRIBE) makes the comparison NaN,
\* that is "equal" to everything; unless that is consistent with the other
\* comparisons the order sort() produces is up to the implementation.
ConsistentComparison(list) ==
  \/ \A i \in 1..Len(list) : list[i].sequence # 0
  \/ \A i, j \in 1..Len(list) :
        (list[i].sequence # 0 /\ list[j].sequence # 0) => list[i].sequence = list[j].sequence

\* With every sequence defined the list is sorted; with comparisons that are
\* all "equal" the (stable) sort leaves the list as it is.
ReplayOrders(list) ==
  IF \A i \in 1..Len(list) : list[i].sequence # 0 THEN {SortBySequence(list)}
  ELSE IF ConsistentComparison(list) THEN {list}
  ELSE ListPermutations(list)

\* Mutation of Resend: every entry is replayed as it is.
RECURSIVE ResendAsIs(_, _)
ResendAsIs(s, list) ==
  IF list = <<>> THEN s
  ELSE ResendAsIs(_schedule_message(s, Head(list)), Tail(list))

RECURSIVE Resend(_, _)
Resend(s, list) ==
  IF list = <<>> THEN s
  ELSE LET sentMessage == Head(list)
           s1 == IF sentMessage.type = MESSAGE_TYPE.PUBLISH /\ sentMessage.pubRecReceived
                 THEN _schedule_message(s, WireMessage(MESSAGE_TYPE.PUBREL, sentMessage.messageIdentifier))
                 ELSE _schedule_message(s, sentMessage)
       IN  Resend(s1, Tail(list))

\* order is the outcome of the sort of the replay list.
HandleConnack(s, wireMessage, order) ==
  LET s1 == CleanSession([s EXCEPT !._connectTimeout = FALSE, !._reconnectTimeout = 0])
  IN
  IF wireMessage.returnCode # 0
  THEN _disconnected(s1, ERROR.CONNACK_RETURNCODE)
  ELSE LET s2 == [s1 EXCEPT !.connected = TRUE,
                            !.hostIndex = IF UriCount(s1) > 0 THEN UriCount(s1) ELSE @,
                            !._buffered_msg_queue = <<>>]
           s3 == Log(Resend(s2, order), Ev("onSuccess", NoMsg, 0))
           reconnected == s3._reconnecting
           s4 == IF reconnected
                 THEN [s3 EXCEPT !._reconnectInterval = 1, !._reconnecting = FALSE]
                 ELSE s3
           s5 == Log(s4, Ev("onConnected", NoMsg, IF reconnected THEN 1 ELSE 0))
       IN  _process_queue(s5)

\* Mutation of StrayAck: the acknowledgement is answered as PUBREL is, always.
StrayAckAnswered(s, wireMessage) ==
  _schedule_message(s, WireMessage(MESSAGE_TYPE.PUBREL, wireMessage.messageIdentifier))

\* if (sentMessage) is false: nothing is done with the acknowledgement
StrayAck(s, wireMessage) == s

\* if (wireMessage.returnCode && (<Uint8Array>wireMessage.returnCode)[0] === 0x80)
SubackFailed(wireMessage) ==
  Len(wireMessage.returnCodes) > 0 /\ wireMessage.returnCodes[1] = 128

\* if (sentMessage.timeOut) sentMessage.timeOut.cancel(): timeOut is what
\* setTimeout returned, which has no method cancel, so the call throws a
\* TypeError; it is caught at the end of _handleMessage.
CancelThrows(sentMessage) == sentMessage.timeOut # 0

HandleAck(s, wireMessage) ==
  LET id == wireMessage.messageIdentifier
      known == id # 0 /\ id \in DOMAIN s._sentMessages
      sentMessage == s._sentMessages[id]
      released == [s EXCEPT !._sentMessages = Remove(@, id)]
      unstored == [released EXCEPT !.storage = Remove(@, <<"Sent:", id>>)]
  IN
  CASE ~known -> StrayAck(s, wireMessage)
    [] known /\ wireMessage.type \in {MESSAGE_TYPE.PUBACK, MESSAGE_TYPE.PUBCOMP} ->
         Deliver(unstored, sentMessage)
    [] known /\ wireMessage.type = MESSAGE_TYPE.PUBREC ->
         LET marked == [s EXCEPT !._sentMessages[id].pubRecReceived = TRUE]
         IN  IF StoreThrows(sentMessage)
             THEN _disconnected(marked, ERROR.INTERNAL_ERROR)
             ELSE LET r == store(marked, "Sent:", marked._sentMessages[id])
                  IN  _schedule_message(r.s, WireMessage(MESSAGE_TYPE.PUBREL, id))
    [] known /\ wireMessage.type = MESSAGE_TYPE.SUBACK ->
         IF CancelThrows(sentMessage)
         THEN _disconnected(s, ERROR.INTERNAL_ERROR)
         ELSE IF sentMessage.type = MESSAGE_TYPE.SUBSCRIBE
         THEN Log(released, Ev(IF SubackFailed(wireMessage)
                               THEN "subscribe.onFailure" ELSE "subscribe.onSuccess",
                               sentMessage,
                               IF SubackFailed(wireMessage) THEN 128 ELSE 0))
         ELSE released
    [] known /\ wireMessage.type = MESSAGE_TYPE.UNSUBACK ->
         IF CancelThrows(sentMessage)
         THEN _disconnected(s, ERROR.INTERNAL_ERROR)
         ELSE IF sentMessage.type = MESSAGE_TYPE.UNSUBSCRIBE
         THEN Log(released, Ev("unsubscribe.onSuccess", sentMessage, 0))
         ELSE released

\* Mutation of HandlePubrel: PUBCOMP only for an identifier found in the Inbox.
HandlePubrelKnown(s, wireMessage) ==
  LET id == wireMessage.messageIdentifier
      s1 == [s EXCEPT !.storage = Remove(@, <<"Received:", id>>)]
  IN  IF id # 0 /\ id \in DOMAIN s1._receivedMessages
      THEN _schedule_message([_receiveMessage(s1, s1._receivedMessages[id])
                                EXCEPT !._receivedMessages = Remove(@, id)],
                             WireMessage(MESSAGE_TYPE.PUBCOMP, id))
      ELSE s1

HandlePubrel(s, wireMessage) ==
  LET id == wireMessage.messageIdentifier
      s1 == [s EXCEPT !.storage = Remove(@, <<"Received:", id>>)]
      s2 == IF id # 0 /\ id \in DOMAIN s1._receivedMessages
            THEN [_receiveMessage(s1, s1._receivedMessages[id])
                    EXCEPT !._receivedMessages = Remove(@, id)]
            ELSE s1
  IN  _schedule_message(s2, WireMessage(MESSAGE_TYPE.PUBCOMP, id))

_handleMessage(s, wireMessage, order) ==
  CASE wireMessage.type = MESSAGE_TYPE.CONNACK -> HandleConnack(s, wireMessage, order)
    [] wireMessage.type = MESSAGE_TYPE.PUBLISH -> _receivePublish(s, wireMessage)
    [] wireMessage.type \in {MESSAGE_TYPE.PUBACK, MESSAGE_TYPE.PUBREC, MESSAGE_TYPE.PUBCOMP,
                             MESSAGE_TYPE.SUBACK, MESSAGE_TYPE.UNSUBACK} ->
         HandleAck(s, wireMessage)
    [] wireMessage.type = MESSAGE_TYPE.PUBREL -> HandlePubrel(s, wireMessage)
    [] wireMessage.type = MESSAGE_TYPE.PINGRESP -> Pinger_reset(s)
    [] OTHER -> _disconnected(s, ERROR.INVALID_MQTT_MESSAGE_TYPE)

\* The replay orders the sort may produce when wireMessage is handled in state s.
OrdersFor(s, wireMessage) ==
  IF wireMessage.type = MESSAGE_TYPE.CONNACK /\ wireMessage.returnCode = 0
  THEN ReplayOrders(SequencedMessages(CleanSession(s)))
  ELSE {<<>>}

\* The well-formed packets a peer can send.
InboundPackets ==
  {[WireMessage(MESSAGE_TYPE.CONNACK, 0) EXCEPT !.returnCode = rc] : rc \in {0, 5}}
  \cup {PublishMessage(-1, 0)}
  \cup {[PublishMessage(-1, q) EXCEPT !.messageIdentifier = id] : q \in 1..2, id \in 1..MaxInId}
  \cup {WireMessage(t, id) :
          t \in {MESSAGE_TYPE.PUBACK, MESSAGE_TYPE.PUBREC, MESSAGE_TYPE.PUBREL,
                 MESSAGE_TYPE.PUBCOMP, MESSAGE_TYPE.UNSUBACK},
          id \in 1..MaxInId}
  \cup {[WireMessage(MESSAGE_TYPE.SUBACK, id) EXCEPT !.returnCodes = <<rc>>] :
          id \in 1..MaxInId, rc \in {0, 128}}
  \cup {WireMessage(MESSAGE_TYPE.PINGRESP, 0), WireMessage(MESSAGE_TYPE.DISCONNECT, 0),
        WireMessage(MESSAGE_TYPE.PINGREQ, 0)}

(***************************************************************************)
(* Pinger.doPing                                                           *)
(***************************************************************************)
\* doPing of a Pinger whose isReset flag is isReset; the result is the state
\* and the Pinger's flag and timer afterwards.
doPing(s, isReset) ==
  IF isReset
  THEN [s |-> IF s.socket.state # "none"
              THEN Log(s, Ev("send", WireMessage(MESSAGE_TYPE.PINGREQ, 0), 0))
              ELSE s,
        isReset |-> FALSE, timeout |-> TRUE]
  ELSE [s |-> _disconnected(s, ERROR.PING_TIMEOUT), isReset |-> FALSE, timeout |-> FALSE]

(***************************************************************************)
(* The state after construction with an empty store.                       *)
(***************************************************************************)
\* The client after construction.
InitClient ==
  /\ connected = FALSE
  /\ socket = NoSocket
  /\ connectOptions = [uris |-> 0, cleanSession |-> FALSE, reconnect |-> FALSE,
                       mqttVersion |-> 4, mqttVersionExplicit |-> TRUE,
                       keepAliveInterval |-> DefaultKeepAliveInterval]
  /\ hostIndex = 0
  /\ _wsuri = 0
  /\ _reconnecting = FALSE
  /\ _reconnectTimeout = 0
  /\ _connectTimeout = FALSE
  /\ _reconnectInterval = 1
  /\ _msg_queue = <<>>
  /\ _buffered_msg_queue = <<>>
  /\ _sentMessages = EmptyMap
  /\ _receivedMessages = EmptyMap
  /\ storage = [k \in {} |-> StoredMessage("Sent:", NoMsg)]
  /\ _message_identifier = 1
  /\ _sequence = 0
  /\ sendPinger = NoPinger
  /\ stalePingers = {}
  /\ disconnectedPublishing = FALSE
  /\ timeOuts = {}
  /\ trace = <<>>
  /\ sendCount = 0
  /\ subscribeCount = 0
  /\ delivered = [p \in 1..MaxSend |-> 0]
  /\ receiveBuffer = <<>>

Init == InitClient /\ input = <<>> /\ output = <<>>

(***************************************************************************)
(* Actions: user calls                                                     *)
(***************************************************************************)
\* connect(options), the options drawn from a set
ConnectWith(Options) ==
  \E options \in Options :
    Commit(connect(Begin(Ev("connect()", NoMsg, options.uris)), options))

AllConnectOptions ==
  {FormatConnectOptions(uris, cleanSession, reconnect, mqttVersion, keepAliveInterval) :
     uris \in 0..MaxUris, cleanSession \in BOOLEAN, reconnect \in BOOLEAN,
     mqttVersion \in {0, 3, 4}, keepAliveInterval \in {-1, 0}}

Connect == ConnectWith(AllConnectOptions)

\* The steps that queue a packet before CONNACK are taken while the queue
\* they leave is within the bound.
QueueBounded(s) == Len(s._msg_queue) <= MaxQueue

Disconnect ==
  LET s == disconnect(Begin(Ev("disconnect()", NoMsg, 0)))
  IN  QueueBounded(s) /\ Commit(s)

Send ==
  /\ sendCount < MaxSend
  /\ \E qos \in 0..2 :
       LET message == PublishMessage(sendCount + 1, qos)
       IN  Commit(send(Begin(Ev("send()", message, 0)), message))

Subscribe ==
  /\ subscribeCount < MaxSubscribe
  /\ Commit(subscribe(Begin(Ev("subscribe()", NoMsg, 0)), MESSAGE_TYPE.SUBSCRIBE, 1, FALSE))

Unsubscribe ==
  /\ subscribeCount < MaxSubscribe
  /\ Commit(subscribe(Begin(Ev("unsubscribe()", NoMsg, 0)), MESSAGE_TYPE.UNSUBSCRIBE, 1, FALSE))

SetDisconnectedPublishing ==
  /\ ~disconnectedPublishing
  /\ Commit([Begin(Ev("disconnectedPublishing=", NoMsg, 1)) EXCEPT !.disconnectedPublishing = TRUE])

(***************************************************************************)
(* Actions: transport callbacks                                            *)
(***************************************************************************)
\* _on_socket_open
SocketOpen ==
  /\ socket.state = "connecting"
  /\ Commit(_socket_send([Begin(Ev("onopen", NoMsg, 0)) EXCEPT !.socket.state = "open"],
                         [WireMessage(MESSAGE_TYPE.CONNECT, 0) EXCEPT
                            !.qos = connectOptions.mqttVersion]))

\* _on_socket_message with a frame that holds one packet, drawn from a set;
\* the step leaves at most bound packets queued
SocketMessageWithin(Packets, bound) ==
  /\ socket.state = "open"
  /\ \E wireMessage \in Packets :
       \E order \in OrdersFor(St, wireMessage) :
         LET s == _handleMessage(Begin(Ev("onmessage", wireMessage, 0)), wireMessage, order)
         IN  Len(s._msg_queue) <= bound /\ Commit(s)

SocketMessageFrom(Packets) == SocketMessageWithin(Packets, MaxQueue)

SocketMessage == SocketMessageFrom(InboundPackets)

\* _on_socket_error
SocketError ==
  /\ socket.state \in {"connecting", "open"}
  /\ LET s == Begin(Ev("onerror", NoMsg, 0))
     IN  Commit(IF ~s._reconnecting THEN _disconnected(s, ERROR.SOCKET_ERROR) ELSE s)

\* _on_socket_close; a transport that closed stays referenced when the event is ignored
SocketClose ==
  /\ socket.state \in {"connecting", "open"}
  /\ LET s == Begin(Ev("onclose", NoMsg, 0))
     IN  Commit(IF ~s._reconnecting THEN _disconnected(s, ERROR.SOCKET_CLOSE)
                ELSE [s EXCEPT !.socket.state = "closed"])

(***************************************************************************)
(* Actions: timers                                                         *)
(***************************************************************************)
\* the callback of the timer set in _doConnect
ConnectTimeout ==
  /\ _connectTimeout
  /\ Commit(_disconnected([Begin(Ev("connectTimeout", NoMsg, 0)) EXCEPT !._connectTimeout = FALSE],
                          ERROR.CONNECT_TIMEOUT))

\* Mutation of ReconnectTimeout: the timer runs _reconnect on the client.
ReconnectTimeoutBound ==
  /\ _reconnectTimeout # 0
  /\ Commit(_reconnect([Begin(Ev("reconnectTimeout", NoMsg, _reconnectTimeout))
                          EXCEPT !._reconnectTimeout = 0]))

\* setTimeout(this._reconnect, ...): the method is passed unbound, so it runs with
\* a this that is not the client and throws on its first statement (this.trace).
ReconnectTimeout ==
  /\ _reconnectTimeout # 0
  /\ Commit(Throw([Begin(Ev("reconnectTimeout", NoMsg, _reconnectTimeout))
                     EXCEPT !._reconnectTimeout = 0], ERROR.INTERNAL_ERROR))

\* the callback of the timer set in subscribe() or unsubscribe()
RequestTimeout ==
  \E timer \in timeOuts :
    LET s == [Begin(Ev("timeOut", NoMsg, timer.request)) EXCEPT !.timeOuts = @ \ {timer}]
    IN  Commit(IF timer.type = MESSAGE_TYPE.SUBSCRIBE
               THEN Log(s, Ev("subscribe.onFailure", NoMsg, ERROR.SUBSCRIBE_TIMEOUT))
               ELSE Log(s, Ev("unsubscribe.onFailure", NoMsg, ERROR.UNSUBSCRIBE_TIMEOUT)))

\* the timer of this.sendPinger
PingerTimeout ==
  /\ ~sendPinger.isNull
  /\ sendPinger.timeout
  /\ LET s == [Begin(Ev("doPing", NoMsg, 0)) EXCEPT !.sendPinger.timeout = FALSE]
         r == doPing(s, s.sendPinger.isReset)
     IN  Commit(IF s.sendPinger.isReset
                THEN [r.s EXCEPT !.sendPinger.isReset = r.isReset,
                                 !.sendPinger.timeout = r.timeout]
                ELSE r.s)

\* the timer of a Pinger that _doConnect replaced while its timer was pending
StalePingerTimeout ==
  \E isReset \in stalePingers :
    LET s == [Begin(Ev("doPing", NoMsg, 1)) EXCEPT !.stalePingers = @ \ {isReset}]
        r == doPing(s, isReset)
    IN  Commit(IF r.timeout
               THEN [r.s EXCEPT !.stalePingers = @ \cup {r.isReset}]
               ELSE r.s)

Next ==
  \/ Connect
  \/ Disconnect
  \/ Send
  \/ Subscribe
  \/ Unsubscribe
  \/ SetDisconnectedPublishing
  \/ SocketOpen
  \/ SocketMessage
  \/ SocketError
  \/ SocketClose
  \/ ConnectTimeout
  \/ ReconnectTimeout
  \/ PingerTimeout
  \/ StalePingerTimeout
  \/ RequestTimeout

Spec == Init /\ [][Next]_vars

(***************************************************************************)
(* The outbound publish flows: one URI, MQTT 3.1 given by the user, no     *)
(* keep-alive; clean and kept sessions, with and without automatic         *)
(* reconnect; the peer sends CONNACK, PUBACK, PUBREC and PUBCOMP in any     *)
(* order.                                                                  *)
(***************************************************************************)
QosOptions ==
  {FormatConnectOptions(0, cleanSession, reconnect, 3, 0) :
     cleanSession \in BOOLEAN, reconnect \in BOOLEAN}

OutPackets ==
  {p \in InboundPackets :
     \/ p.type = MESSAGE_TYPE.CONNACK /\ p.returnCode = 0
     \/ p.type \in {MESSAGE_TYPE.PUBACK, MESSAGE_TYPE.PUBREC, MESSAGE_TYPE.PUBCOMP}}

OutConnect == ConnectWith(QosOptions)
OutMessage == SocketMessageFrom(OutPackets)

NextOut ==
  \/ OutConnect
  \/ Disconnect
  \/ Send
  \/ SocketOpen
  \/ OutMessage
  \/ SocketClose

SpecOut == Init /\ [][NextOut]_vars

(***************************************************************************)
(* The same, with a peer that also acknowledges with SUBACK.               *)
(***************************************************************************)
MixedPackets ==
  OutPackets \cup {p \in InboundPackets : p.type = MESSAGE_TYPE.SUBACK /\ p.returnCodes = <<0>>}

MixedMessage == SocketMessageFrom(MixedPackets)

NextMixed ==
  \/ OutConnect
  \/ Disconnect
  \/ Send
  \/ SocketOpen
  \/ MixedMessage
  \/ SocketClose

SpecMixed == Init /\ [][NextMixed]_vars

(***************************************************************************)
(* The inbound publish flows: the same connections; the peer sends         *)
(* CONNACK, PUBLISH of every QoS and PUBREL in any order.                  *)
(***************************************************************************)
InPackets ==
  {p \in InboundPackets :
     \/ p.type = MESSAGE_TYPE.CONNACK /\ p.returnCode = 0
     \/ p.type \in {MESSAGE_TYPE.PUBLISH, MESSAGE_TYPE.PUBREL}}

InMessage == SocketMessageFrom(InPackets)

NextIn ==
  \/ OutConnect
  \/ Disconnect
  \/ SocketOpen
  \/ InMessage
  \/ SocketClose

SpecIn == Init /\ [][NextIn]_vars

(***************************************************************************)
(* Connection establishment and loss: every shape of the URI list, the     *)
(* MQTT version given or left out, with and without automatic reconnect;   *)
(* the transport opens, fails or closes, the peer accepts or refuses the   *)
(* connection, and the connect and reconnect timers fire.                  *)
(***************************************************************************)
ConnOptions ==
  {FormatConnectOptions(uris, TRUE, reconnect, mqttVersion, 0) :
     uris \in 0..MaxUris, reconnect \in BOOLEAN, mqttVersion \in {0, 3, 4}}

ConnPackets == {p \in InboundPackets : p.type = MESSAGE_TYPE.CONNACK}

ConnConnect == ConnectWith(ConnOptions)
ConnMessage == SocketMessageFrom(ConnPackets)

NextConn ==
  \/ ConnConnect
  \/ Disconnect
  \/ SocketOpen
  \/ ConnMessage
  \/ SocketError
  \/ SocketClose
  \/ ConnectTimeout
  \/ ReconnectTimeout

SpecConn == Init /\ [][NextConn]_vars

(***************************************************************************)
(* Keep-alive: the default keepAliveInterval; the user publishes, the peer *)
(* sends CONNACK and PINGRESP, the Pinger's timer fires.                   *)
(***************************************************************************)
PingOptions == {FormatConnectOptions(0, TRUE, reconnect, 3, -1) : reconnect \in BOOLEAN}

PingPackets ==
  {p \in InboundPackets :
     \/ p.type = MESSAGE_TYPE.CONNACK /\ p.returnCode = 0
     \/ p.type = MESSAGE_TYPE.PINGRESP}

PingConnect == ConnectWith(PingOptions)
PingMessage == SocketMessageFrom(PingPackets)

NextPing ==
  \/ PingConnect
  \/ Disconnect
  \/ Send
  \/ SocketOpen
  \/ PingMessage
  \/ SocketClose
  \/ PingerTimeout

SpecPing == Init /\ [][NextPing]_vars

(***************************************************************************)
(* The outbound queue: a kept session with automatic reconnect; the peer   *)
(* sends CONNACK, QoS-1 PUBLISH and PUBREL in any order, also before        *)
(* CONNACK, so that up to MaxQueue + 1 acknowledgements wait in the queue   *)
(* when the CONNACK arrives.                                               *)
(***************************************************************************)
QueueOptions == {FormatConnectOptions(0, FALSE, TRUE, 3, 0)}

QueuePackets ==
  {p \in InboundPackets :
     \/ p.type = MESSAGE_TYPE.CONNACK /\ p.returnCode = 0
     \/ p.type = MESSAGE_TYPE.PUBLISH /\ p.qos = 1
     \/ p.type = MESSAGE_TYPE.PUBREL}

QueueConnect == ConnectWith(QueueOptions)
QueueMessage == SocketMessageWithin(QueuePackets, MaxQueue + 1)

NextQueue ==
  \/ QueueConnect
  \/ Disconnect
  \/ Send
  \/ SocketOpen
  \/ QueueMessage
  \/ SocketClose

SpecQueue == Init /\ [][NextQueue]_vars

(***************************************************************************)
(* The replay at CONNACK: one persistent session (cleanSession false) with *)
(* automatic reconnect, in which the application publishes and subscribes, *)
(* also while the client is reconnecting (disconnectedPublishing), and the *)
(* peer answers with CONNACK only.                                         *)
(***************************************************************************)
ReplayOptions == {FormatConnectOptions(0, FALSE, TRUE, 3, 0)}

ReplayPackets == {p \in InboundPackets : p.type = MESSAGE_TYPE.CONNACK /\ p.returnCode = 0}

ReplayConnect == ConnectWith(ReplayOptions)
ReplayMessage == SocketMessageFrom(ReplayPackets)

NextReplay ==
  \/ ReplayConnect
  \/ Send
  \/ Subscribe
  \/ SetDisconnectedPublishing
  \/ SocketOpen
  \/ ReplayMessage
  \/ SocketClose

SpecReplay == Init /\ [][NextReplay]_vars

(***************************************************************************)
(* Resending: as SpecReplay, with exactly-once messages only, which the    *)
(* peer answers with PUBREC, so that the Outbox of a resumed session holds *)
(* entries with and without pubRecReceived next to SUBSCRIBE entries.      *)
(***************************************************************************)
ResendPackets ==
  {p \in InboundPackets :
     \/ p.type = MESSAGE_TYPE.CONNACK /\ p.returnCode = 0
     \/ p.type = MESSAGE_TYPE.PUBREC}

\* At most MaxSend requests in all, so that the replay list stays short.
SendExactlyOnce ==
  /\ sendCount + subscribeCount < MaxSend
  /\ LET message == PublishMessage(sendCount + 1, 2)
     IN  Commit(send(Begin(Ev("send()", message, 0)), message))

SubscribeOnce == sendCount + subscribeCount < MaxSend /\ Subscribe

ResendMessage == SocketMessageFrom(ResendPackets)

NextResend ==
  \/ ReplayConnect
  \/ SendExactlyOnce
  \/ SubscribeOnce
  \/ SocketOpen
  \/ ResendMessage
  \/ SocketClose

SpecResend == Init /\ [][NextResend]_vars

(***************************************************************************)
(* Acknowledgements: one clean session without reconnect, in which the     *)
(* application subscribes and unsubscribes and the peer sends CONNACK and  *)
(* every kind of acknowledgement, with any identifier.  (SpecOut and       *)
(* SpecMixed have the acknowledgements next to PUBLISH entries.)           *)
(***************************************************************************)
AckTypes ==
  {MESSAGE_TYPE.PUBACK, MESSAGE_TYPE.PUBREC, MESSAGE_TYPE.PUBCOMP,
   MESSAGE_TYPE.SUBACK, MESSAGE_TYPE.UNSUBACK}

AckOptions == {FormatConnectOptions(0, TRUE, FALSE, 3, 0)}

AckPackets ==
  {p \in InboundPackets :
     \/ p.type = MESSAGE_TYPE.CONNACK /\ p.returnCode = 0
     \/ p.type \in AckTypes}

AckConnect == ConnectWith(AckOptions)
AckMessage == SocketMessageFrom(AckPackets)

NextAck ==
  \/ AckConnect
  \/ Subscribe
  \/ Unsubscribe
  \/ SocketOpen
  \/ AckMessage
  \/ SocketClose

SpecAck == Init /\ [][NextAck]_vars

(***************************************************************************)
(* Packets a client does not accept: one clean session, with and without   *)
(* automatic reconnect; the peer sends CONNACK, DISCONNECT and PINGREQ.    *)
(***************************************************************************)
FatalOptions == {FormatConnectOptions(0, TRUE, reconnect, 3, 0) : reconnect \in BOOLEAN}

FatalPackets ==
  {p \in InboundPackets :
     \/ p.type = MESSAGE_TYPE.CONNACK /\ p.returnCode = 0
     \/ p.type \in {MESSAGE_TYPE.DISCONNECT, MESSAGE_TYPE.PINGREQ}}

FatalConnect == ConnectWith(FatalOptions)
FatalMessage == SocketMessageFrom(FatalPackets)

NextFatal ==
  \/ FatalConnect
  \/ Disconnect
  \/ Subscribe
  \/ SocketOpen
  \/ FatalMessage
  \/ SocketClose
  \/ ReconnectTimeout

SpecFatal == Init /\ [][NextFatal]_vars

(***************************************************************************)
(* Subscriptions with one and with several topic filters: one clean        *)
(* session without reconnect; the peer answers with CONNACK and with       *)
(* SUBACKs of 1..MaxTopics return codes, each 0 (granted) or 0x80.         *)
(***************************************************************************)
RECURSIVE ReturnCodes(_)
ReturnCodes(n) ==
  IF n = 0 THEN {<<>>}
  ELSE {Append(codes, rc) : codes \in ReturnCodes(n - 1), rc \in {0, 128}}

TopicsPackets ==
  {p \in InboundPackets : p.type = MESSAGE_TYPE.CONNACK /\ p.returnCode = 0}
  \cup {[WireMessage(MESSAGE_TYPE.SUBACK, id) EXCEPT !.returnCodes = codes] :
          id \in 1..MaxInId, codes \in UNION {ReturnCodes(n) : n \in 1..MaxTopics}}

SubscribeTopics ==
  /\ subscribeCount < MaxSubscribe
  /\ \E topics \in 1..MaxTopics :
       Commit(subscribe(Begin(Ev("subscribe()", NoMsg, topics)),
                        MESSAGE_TYPE.SUBSCRIBE, topics, FALSE))

TopicsMessage == SocketMessageFrom(TopicsPackets)

NextTopics ==
  \/ AckConnect
  \/ SubscribeTopics
  \/ SocketOpen
  \/ TopicsMessage
  \/ SocketClose

SpecTopics == Init /\ [][NextTopics]_vars

(***************************************************************************)
(* Requests with and without the timeout option: one clean session without *)
(* reconnect, in which the application subscribes and unsubscribes, the    *)
(* peer answers with CONNACK, SUBACK (granted or 0x80) and UNSUBACK, and    *)
(* the timers of the requests fire.                                        *)
(***************************************************************************)
RequestPackets ==
  {p \in InboundPackets :
     \/ p.type = MESSAGE_TYPE.CONNACK /\ p.returnCode = 0
     \/ p.type \in {MESSAGE_TYPE.SUBACK, MESSAGE_TYPE.UNSUBACK}}

SubscribeTimed ==
  /\ subscribeCount < MaxSubscribe
  /\ \E timeout \in BOOLEAN :
       Commit(subscribe(Begin(Ev("subscribe()", NoMsg, 1)),
                        MESSAGE_TYPE.SUBSCRIBE, 1, timeout))

UnsubscribeTimed ==
  /\ subscribeCount < MaxSubscribe
  /\ \E timeout \in BOOLEAN :
       Commit(subscribe(Begin(Ev("unsubscribe()", NoMsg, 1)),
                        MESSAGE_TYPE.UNSUBSCRIBE, 1, timeout))

RequestMessage == SocketMessageFrom(RequestPackets)

NextRequest ==
  \/ AckConnect
  \/ SubscribeTimed
  \/ UnsubscribeTimed
  \/ SocketOpen
  \/ RequestMessage
  \/ SocketClose
  \/ RequestTimeout

SpecRequest == Init /\ [][NextRequest]_vars

(***************************************************************************)
(* Calls in every state: one clean session with automatic reconnect,       *)
(* in which the application calls connect, disconnect, send, subscribe and *)
(* unsubscribe at any time, with disconnectedPublishing on or off and      *)
(* disconnectedBufferSize set to MaxBuffer; the peer sends CONNACK.        *)
(***************************************************************************)
CallsOptions == {FormatConnectOptions(0, TRUE, TRUE, 3, 0)}

CallsConnect == ConnectWith(CallsOptions)

SendBuffered ==
  /\ sendCount < MaxSend
  /\ \E qos \in 0..1 :
       LET message == PublishMessage(sendCount + 1, qos)
       IN  Commit(SendWithin(Begin(Ev("send()", message, 0)), message, MaxBuffer))

NextCalls ==
  \/ CallsConnect
  \/ Disconnect
  \/ SendBuffered
  \/ Subscribe
  \/ Unsubscribe
  \/ SetDisconnectedPublishing
  \/ SocketOpen
  \/ ReplayMessage
  \/ SocketClose

SpecCalls == Init /\ [][NextCalls]_vars

(***************************************************************************)
(* The codec (utils: decodeMessage, encodeMBI; WireMessage.encode).  A     *)
(* Uint8Array is a sequence of numbers in 0..255; the byte at offset pos   *)
(* of the array is element pos + 1 of the sequence.  The numbers stay      *)
(* below 2^31, where number >> 7 is the integer division by 128.           *)
(***************************************************************************)
MaxMBI == 268435455

\* Mutation of EncodeDigits: no digit carries the continuation bit.
RECURSIVE EncodeDigitsPlain(_, _)
EncodeDigitsPlain(number, numBytes) ==
  LET rest == number \div 128
  IN  <<number % 128>> \o
      (IF rest > 0 /\ numBytes + 1 < 4 THEN EncodeDigitsPlain(rest, numBytes + 1) ELSE <<>>)

\* The do-while loop of encodeMBI from the iteration that writes output[numBytes].
RECURSIVE EncodeDigits(_, _)
EncodeDigits(number, numBytes) ==
  LET rest  == number \div 128
      digit == IF rest > 0 THEN (number % 128) + 128 ELSE number % 128
  IN  <<digit>> \o
      (IF rest > 0 /\ numBytes + 1 < 4 THEN EncodeDigits(rest, numBytes + 1) ELSE <<>>)

encodeMBI(number) == EncodeDigits(number, 0)

\* The do-while loop of decodeMessage that reads the remaining length from
\* offset pos on; done is FALSE when the array ends inside the field.
RECURSIVE DecodeMBI(_, _, _, _)
DecodeMBI(bytes, pos, remLength, multiplier) ==
  IF pos = Len(bytes) THEN [done |-> FALSE, remLength |-> 0, pos |-> pos]
  ELSE LET digit == bytes[pos + 1]
           sum   == remLength + (digit % 128) * multiplier
       IN  IF digit \div 128 # 0
           THEN DecodeMBI(bytes, pos + 1, sum, multiplier * 128)
           ELSE [done |-> TRUE, remLength |-> sum, pos |-> pos + 1]

\* readUint16
readUint16(buffer, offset) == 256 * buffer[offset + 1] + buffer[offset + 2]

\* A string is the sequence of its UTF-16 code units.  parseUTF8 on the bytes
\* from offset pos up to offset end; the throws on malformed UTF-8 are left
\* out, the topic names of well-formed frames do not reach them.
RECURSIVE parseUTF8(_, _, _)
parseUTF8(array, pos, end) ==
  IF pos >= end THEN <<>>
  ELSE
    LET byte1 == array[pos + 1] IN
    IF byte1 < 128 THEN <<byte1>> \o parseUTF8(array, pos + 1, end)
    ELSE
      LET byte2 == array[pos + 2] - 128 IN
      IF byte1 < 224
      THEN <<64 * (byte1 - 192) + byte2>> \o parseUTF8(array, pos + 2, end)
      ELSE
        LET byte3 == array[pos + 3] - 128 IN
        IF byte1 < 240
        THEN <<4096 * (byte1 - 224) + 64 * byte2 + byte3>> \o parseUTF8(array, pos + 3, end)
        ELSE
          LET byte4 == array[pos + 4] - 128
              utf16 == 262144 * (byte1 - 240) + 4096 * byte2 + 64 * byte3 + byte4
          IN  (IF utf16 > 65535
               THEN <<55296 + ((utf16 - 65536) \div 1024), 56320 + ((utf16 - 65536) % 1024)>>
               ELSE <<utf16>>)
              \o parseUTF8(array, pos + 4, end)

\* The code unit at the head of the string leads a surrogate pair.
LeadsPair(string) == 55296 <= Head(string) /\ Head(string) <= 56319

\* UTF8Length
RECURSIVE UTF8Length(_)
UTF8Length(string) ==
  IF string = <<>> THEN 0
  ELSE IF Head(string) > 2047
  THEN IF LeadsPair(string)
       THEN 4 + UTF8Length(Tail(Tail(string)))
       ELSE 3 + UTF8Length(Tail(string))
  ELSE IF Head(string) > 127 THEN 2 + UTF8Length(Tail(string))
  ELSE 1 + UTF8Length(Tail(string))

\* stringToUTF8: the bytes written for the string.
RECURSIVE stringToUTF8(_)
stringToUTF8(string) ==
  IF string = <<>> THEN <<>>
  ELSE
    LET charCode == IF LeadsPair(string)
                    THEN (Head(string) - 55296) * 1024 + (string[2] - 56320) + 65536
                    ELSE Head(string)
        rest     == IF LeadsPair(string) THEN Tail(Tail(string)) ELSE Tail(string)
        bytes    ==
          IF charCode <= 127 THEN <<charCode>>
          ELSE IF charCode <= 2047
          THEN <<((charCode \div 64) % 32) + 192, (charCode % 64) + 128>>
          ELSE IF charCode <= 65535
          THEN <<((charCode \div 4096) % 16) + 224, ((charCode \div 64) % 64) + 128,
                 (charCode % 64) + 128>>
          ELSE <<((charCode \div 262144) % 8) + 240, ((charCode \div 4096) % 64) + 128,
                 ((charCode \div 64) % 64) + 128, (charCode % 64) + 128>>
    IN  bytes \o stringToUTF8(rest)

\* A WireMessage as decodeMessage builds it and encode reads it.  Fields that
\* are not set: messageIdentifier 0, returnCode Undefined, returnCode as a
\* Uint8Array (SUBACK) in returnCodes, topics <<>>; payloadMessage is spread
\* over hasPayloadMessage, payload, qos, retained, duplicate, destinationName.
NoPacket ==
  [type |-> 0, sessionPresent |-> FALSE, returnCode |-> Undefined, returnCodes |-> <<>>,
   messageIdentifier |-> 0, topics |-> <<>>, requestedQos |-> <<>>,
   hasPayloadMessage |-> FALSE, payload |-> <<>>, qos |-> 0, retained |-> FALSE,
   duplicate |-> FALSE, destinationName |-> <<>>]

Slice(array, pos, end) == SubSeq(array, pos + 1, end)

\* Message.ts: the setters of qos, destinationName, retained and duplicate
\* assign to the property they define (set qos(newQos) { ... this.qos = newQos }),
\* which calls the setter again, and the getters read it the same way: an
\* access of one of these properties of a Message ends in a RangeError when
\* the call stack is exhausted.
AccessorThrows == TRUE

\* decodeMessage(input, pos): null is TRUE for [null, startingPos], thrown
\* when the call does not return.  A PUBLISH frame gets as far as
\* message.qos = qos, or to message.retained = true before it.
decodeMessage(array, startingPos) ==
  LET first       == array[startingPos + 1]
      type        == first \div 16
      messageInfo == first % 16
      length      == DecodeMBI(array, startingPos + 1, 0, 1)
      pos         == length.pos
      endPos      == pos + length.remLength
      partial     == [null |-> TRUE, thrown |-> FALSE, wireMessage |-> NoPacket,
                      pos |-> startingPos]
      wireMessage == [NoPacket EXCEPT !.type = type]
  IN
  IF ~length.done THEN partial
  ELSE IF endPos > Len(array) THEN partial
  ELSE
    [null |-> FALSE, thrown |-> type = MESSAGE_TYPE.PUBLISH /\ AccessorThrows,
     pos |-> endPos, wireMessage |->
      CASE type = MESSAGE_TYPE.CONNACK ->
             [wireMessage EXCEPT !.sessionPresent = (array[pos + 1] % 2 = 1),
                                 !.returnCode = array[pos + 2]]
        [] type = MESSAGE_TYPE.PUBLISH ->
             LET qos      == (messageInfo \div 2) % 4
                 len      == readUint16(array, pos)
                 idPos    == pos + 2 + len
                 bodyPos  == IF qos > 0 THEN idPos + 2 ELSE idPos
             IN  [wireMessage EXCEPT
                    !.messageIdentifier = IF qos > 0 THEN readUint16(array, idPos) ELSE 0,
                    !.hasPayloadMessage = TRUE,
                    !.payload = Slice(array, bodyPos, endPos),
                    !.retained = (messageInfo % 2 = 1),
                    !.duplicate = ((messageInfo \div 8) % 2 = 1),
                    !.qos = qos,
                    !.destinationName = parseUTF8(array, pos + 2, pos + 2 + len)]
        [] type \in {MESSAGE_TYPE.PUBACK, MESSAGE_TYPE.PUBREC, MESSAGE_TYPE.PUBREL,
                     MESSAGE_TYPE.PUBCOMP, MESSAGE_TYPE.UNSUBACK} ->
             [wireMessage EXCEPT !.messageIdentifier = readUint16(array, pos)]
        [] type = MESSAGE_TYPE.SUBACK ->
             [wireMessage EXCEPT !.messageIdentifier = readUint16(array, pos),
                                 !.returnCodes = Slice(array, pos + 2, endPos)]
        [] OTHER -> wireMessage]

\* The while loop of _deframeMessages from offset on.
RECURSIVE DecodeFrom(_, _, _)
DecodeFrom(byteArray, offset, messages) ==
  IF offset >= Len(byteArray)
  THEN [messages |-> messages, offset |-> offset, thrown |-> FALSE]
  ELSE LET result == decodeMessage(byteArray, offset)
       IN  IF result.thrown THEN [messages |-> <<>>, offset |-> offset, thrown |-> TRUE]
           ELSE IF result.null
           THEN [messages |-> messages, offset |-> result.pos, thrown |-> FALSE]
           ELSE DecodeFrom(byteArray, result.pos, Append(messages, result.wireMessage))

\* What _deframeMessages(data) does with this.receiveBuffer = buffer up to its
\* return or its catch clause: the packets it returns (none when it returns
\* undefined) and the receiveBuffer it leaves, which is null after a throw.
Deframe(buffer, data) ==
  LET byteArray == buffer \o data
      decoded   == DecodeFrom(byteArray, 0, <<>>)
  IN  [messages |-> decoded.messages,
       receiveBuffer |-> IF ~decoded.thrown /\ decoded.offset < Len(byteArray)
                         THEN Slice(byteArray, decoded.offset, Len(byteArray))
                         ELSE <<>>,
       thrown |-> decoded.thrown]

\* _deframeMessages(data): the state it leaves and the packets it returns.
_deframeMessages(s, data) ==
  LET result == Deframe(s.receiveBuffer, data)
      s1     == [s EXCEPT !.receiveBuffer = result.receiveBuffer]
  IN  [s |-> IF result.thrown THEN _disconnected(s1, ERROR.INTERNAL_ERROR) ELSE s1,
       messages |-> result.messages]

\* buffer with bytes written from offset on.
Set(buffer, bytes, offset) ==
  [i \in 1..Len(buffer) |->
     IF i > offset /\ i <= offset + Len(bytes) THEN bytes[i - offset] ELSE buffer[i]]

\* writeUint16
writeUint16(number, out) ==
  IF number = 0 THEN out
  ELSE [buffer |-> Set(out.buffer, <<(number \div 256) % 256, number % 256>>, out.pos),
        pos |-> out.pos + 2]

\* writeString
writeString(string, utf8Length, out) ==
  IF string = <<>> THEN out
  ELSE LET out1 == writeUint16(utf8Length, out)
       IN  [buffer |-> Set(out1.buffer, stringToUTF8(string), out1.pos),
            pos |-> out1.pos + utf8Length]

RECURSIVE TopicsLength(_)
TopicsLength(topics) ==
  IF topics = <<>> THEN 0 ELSE UTF8Length(Head(topics)) + 2 + TopicsLength(Tail(topics))

\* The loops of encode that write the topic filters, each followed by its
\* requested QoS in a SUBSCRIBE.
RECURSIVE WriteTopics(_, _, _)
WriteTopics(topics, requestedQos, out) ==
  IF topics = <<>> THEN out
  ELSE LET out1 == writeString(Head(topics), UTF8Length(Head(topics)), out)
           out2 == IF requestedQos = <<>> THEN out1
                   ELSE [buffer |-> Set(out1.buffer, <<Head(requestedQos)>>, out1.pos),
                         pos |-> out1.pos + 1]
       IN  WriteTopics(Tail(topics), IF requestedQos = <<>> THEN <<>> ELSE Tail(requestedQos), out2)

\* WireMessage.encode for every type but CONNECT, whose branches need the
\* connect options.
encode(w) ==
  LET isPublish   == w.type = MESSAGE_TYPE.PUBLISH /\ w.hasPayloadMessage
      isSubscribe == w.type = MESSAGE_TYPE.SUBSCRIBE /\ w.topics # <<>>
      isUnsubscribe == w.type = MESSAGE_TYPE.UNSUBSCRIBE /\ w.topics # <<>>
      first ==
        (w.type % 16) * 16
        + (IF isSubscribe \/ isUnsubscribe \/ w.type = MESSAGE_TYPE.PUBREL THEN 2 ELSE 0)
        + (IF isPublish
           THEN (IF w.duplicate THEN 8 ELSE 0) + w.qos * 2 + (IF w.retained THEN 1 ELSE 0)
           ELSE 0)
      destinationNameLength == IF isPublish THEN UTF8Length(w.destinationName) ELSE 0
      remLength ==
        (IF w.messageIdentifier # 0 THEN 2 ELSE 0)
        + (IF isSubscribe THEN TopicsLength(w.topics) + Len(w.requestedQos) ELSE 0)
        + (IF isUnsubscribe THEN TopicsLength(w.topics) ELSE 0)
        + (IF isPublish THEN destinationNameLength + 2 + Len(w.payload) ELSE 0)
      mbi  == encodeMBI(remLength)
      out0 == [buffer |-> Set([i \in 1..(remLength + Len(mbi) + 1) |-> 0], <<first>> \o mbi, 0),
               pos |-> Len(mbi) + 1]
      out1 == IF w.type = MESSAGE_TYPE.PUBLISH
              THEN writeString(IF w.hasPayloadMessage THEN w.destinationName ELSE <<>>,
                               destinationNameLength, out0)
              ELSE out0
      out2 == writeUint16(w.messageIdentifier, out1)
      out3 == IF isPublish THEN [out2 EXCEPT !.buffer = Set(@, w.payload, out2.pos)]
              ELSE IF isSubscribe THEN WriteTopics(w.topics, w.requestedQos, out2)
              ELSE IF isUnsubscribe THEN WriteTopics(w.topics, <<>>, out2)
              ELSE out2
  IN  out3.buffer

(***************************************************************************)
(* The remaining-length field on its own: a number is encoded, and the     *)
(* bytes are decoded as decodeMessage decodes them.  The numbers are the   *)
(* small ones and those next to the places where the length of the field   *)
(* changes.                                                                *)
(***************************************************************************)
MaxNumber == 200

Numbers ==
  (0..MaxNumber)
  \cup {n \in 16382..16385 : TRUE}
  \cup {n \in 2097150..2097153 : TRUE}
  \cup {MaxMBI - 1, MaxMBI}

NoLength == [mbi |-> <<>>, remLength |-> Undefined]

InitMBI == InitClient /\ input \in Numbers /\ output = NoLength

EncodeNumber ==
  /\ output.mbi = <<>>
  /\ Commit([Begin(Ev("encodeMBI", NoMsg, 0)) EXCEPT !.output.mbi = encodeMBI(input)])

DecodeLength ==
  /\ output.mbi # <<>>
  /\ output.remLength = Undefined
  /\ Commit([Begin(Ev("decodeMessage", NoMsg, 0))
               EXCEPT !.output.remLength = DecodeMBI(output.mbi, 0, 0, 1).remLength])

NextMBI == EncodeNumber \/ DecodeLength

SpecMBI == InitMBI /\ [][NextMBI]_vars

(***************************************************************************)
(* Well-formed frames, built as the MQTT wire format lays them out: the    *)
(* first byte, the remaining length, and the body.                          *)
(***************************************************************************)
MaxPayload == 130

Uint16(n) == <<n \div 256, n % 256>>

RECURSIVE RemainingLength(_)
RemainingLength(n) ==
  IF n < 128 THEN <<n>> ELSE <<(n % 128) + 128>> \o RemainingLength(n \div 128)

Frame(first, body) == <<first>> \o RemainingLength(Len(body)) \o body

\* Identifiers of one and of two significant bytes.
FrameIdentifiers == {1, 258, 65535}

\* Topic names as UTF-8: "a", "a/b", and names with a character of two, of
\* three and of four bytes.
TopicNames ==
  {<<97>>, <<97, 47, 98>>, <<97, 195, 169>>, <<226, 130, 172, 47, 98>>, <<240, 159, 152, 128>>}

\* Payloads: none, two bytes, and one that needs a remaining length of two bytes.
Payloads == {<<>>, <<0, 255>>, [i \in 1..MaxPayload |-> i % 256]}

PublishFrame(qos, dup, retain, topic, id, payload) ==
  Frame(48 + 8 * dup + 2 * qos + retain,
        Uint16(Len(topic)) \o topic \o (IF qos > 0 THEN Uint16(id) ELSE <<>>) \o payload)

PublishFrames ==
  {PublishFrame(0, 0, retain, topic, 0, payload) :
     retain \in 0..1, topic \in TopicNames, payload \in Payloads}
  \cup {PublishFrame(qos, dup, retain, topic, id, payload) :
          qos \in 1..2, dup \in 0..1, retain \in 0..1, topic \in TopicNames,
          id \in {1, 258}, payload \in Payloads}

\* PUBACK, PUBREC, PUBREL (flags 0010), PUBCOMP and UNSUBACK.
AckFrames ==
  {Frame(first, Uint16(id)) : first \in {64, 80, 98, 112, 176}, id \in FrameIdentifiers}

ConnackFrames == {Frame(32, <<sessionPresent, rc>>) : sessionPresent \in 0..1, rc \in {0, 5}}

SubackFrames ==
  {Frame(144, Uint16(id) \o codes) :
     id \in FrameIdentifiers, codes \in {<<0>>, <<128>>, <<1, 128>>}}

\* PINGREQ, PINGRESP and DISCONNECT.
EmptyFrames == {Frame(first, <<>>) : first \in {192, 208, 224}}

\* SUBSCRIBE and UNSUBSCRIBE of the topic filter "a".
RequestFrames ==
  {Frame(130, Uint16(id) \o <<0, 1, 97, 1>>) : id \in FrameIdentifiers}
  \cup {Frame(162, Uint16(id) \o <<0, 1, 97>>) : id \in FrameIdentifiers}

Frames ==
  PublishFrames \cup AckFrames \cup ConnackFrames \cup SubackFrames \cup EmptyFrames
  \cup RequestFrames

(***************************************************************************)
(* The codec round trip: a well-formed frame is decoded, and the packet    *)
(* that decodeMessage returns is encoded.                                  *)
(***************************************************************************)
NoCodec == [decoded |-> FALSE, thrown |-> FALSE, wireMessage |-> NoPacket, encoded |-> <<>>]

InitCodec == InitClient /\ input \in Frames /\ output = NoCodec

DecodeFrame ==
  /\ ~output.decoded
  /\ Commit([Begin(Ev("decodeMessage", NoMsg, 0))
               EXCEPT !.output.decoded = TRUE,
                      !.output.thrown = decodeMessage(input, 0).thrown,
                      !.output.wireMessage = decodeMessage(input, 0).wireMessage])

EncodePacket ==
  /\ output.decoded
  /\ ~output.thrown
  /\ output.encoded = <<>>
  /\ Commit([Begin(Ev("encode", NoMsg, 0))
               EXCEPT !.output.encoded = encode(output.wireMessage)])

NextCodec == DecodeFrame \/ EncodePacket

SpecCodec == InitCodec /\ [][NextCodec]_vars

(***************************************************************************)
(* Deframing: the client connects, and a stream of 1..MaxPackets           *)
(* well-formed frames reaches _deframeMessages in chunks over the open     *)
(* transport; every chunk is 1..MaxChunk bytes long or is all that is left *)
(* of the stream, so that a chunk can end at any offset.                   *)
(***************************************************************************)
MaxPackets == 2
MaxChunk == 3

\* One frame of every shape that decodeMessage tells apart, with remaining
\* lengths of one and of two bytes.
StreamFrames ==
  {Frame(32, <<1, 0>>),
   Frame(64, Uint16(258)),
   Frame(144, Uint16(1) \o <<1, 128>>),
   Frame(208, <<>>),
   PublishFrame(1, 0, 0, <<97, 195, 169>>, 258, <<0, 255>>),
   PublishFrame(0, 0, 1, <<97>>, 0, [i \in 1..MaxPayload |-> i % 256])}

RECURSIVE Streams(_)
Streams(n) ==
  IF n = 0 THEN {<<>>}
  ELSE {frame \o stream : frame \in StreamFrames, stream \in Streams(n - 1)} \cup Streams(n - 1)

NoChunks == [fed |-> 0, messages |-> <<>>]

InitFrame ==
  /\ InitClient
  /\ input \in Streams(MaxPackets) \ {<<>>}
  /\ output = NoChunks

\* _on_socket_message hands the next chunk to _deframeMessages.
FeedChunk ==
  /\ socket.state = "open"
  /\ output.fed < Len(input)
  /\ \E size \in (1..MaxChunk) \cup {Len(input) - output.fed} :
       /\ output.fed + size <= Len(input)
       /\ LET data   == SubSeq(input, output.fed + 1, output.fed + size)
              result == _deframeMessages(Begin(Ev("_deframeMessages", NoMsg, size)), data)
          IN  Commit([result.s EXCEPT !.output.fed = @ + size,
                                      !.output.messages = @ \o result.messages])

NextFrame == AckConnect \/ SocketOpen \/ FeedChunk

SpecFrame == InitFrame /\ [][NextFrame]_vars

(***************************************************************************)
(* The identifier allocator on its own, with maxMessageIdentifier scaled   *)
(* down to MaxIdentifier: _requires_ack is applied to a PUBLISH or a        *)
(* SUBSCRIBE, and entries are released by their acknowledgement, in any    *)
(* order.  The identifiers are followed up to MaxIdentifier + 2, and at    *)
(* most MaxSend of the entries are PUBLISH packets.                        *)
(***************************************************************************)
AllocateWith(s, wireMessage) ==
  LET r == RequiresAckWithin(s, wireMessage, MaxIdentifier)
  IN  IF TooManyMessagesWithin(s, MaxIdentifier)
      THEN Commit(Throw(s, ERROR.INTERNAL_ERROR))
      ELSE /\ r.m.messageIdentifier <= MaxIdentifier + 2
           /\ Commit(r.s)

AllocatePublish ==
  /\ sendCount < MaxSend
  /\ LET message == PublishMessage(sendCount + 1, 1)
     IN  AllocateWith([Begin(Ev("_requires_ack", message, 0)) EXCEPT !.sendCount = @ + 1],
                      message)

AllocateSubscribe ==
  LET message == WireMessage(MESSAGE_TYPE.SUBSCRIBE, 0)
  IN  AllocateWith(Begin(Ev("_requires_ack", message, 0)), message)

\* The acknowledgement of the Outbox entry id arrives.
Release ==
  \E id \in DOMAIN _sentMessages :
    LET ack == WireMessage(IF _sentMessages[id].type = MESSAGE_TYPE.PUBLISH
                           THEN MESSAGE_TYPE.PUBACK ELSE MESSAGE_TYPE.SUBACK, id)
    IN  Commit(HandleAck(Begin(Ev("onmessage", ack, 0)), ack))

NextAlloc ==
  \/ AllocatePublish
  \/ AllocateSubscribe
  \/ Release

SpecAlloc == Init /\ [][NextAlloc]_vars

(***************************************************************************)
(* Properties.  A step's trace begins with the call or event that caused   *)
(* it; the frames it wrote and the callbacks it made follow in order.      *)
(***************************************************************************)
\* The positions of the trace t at which a packet of this type and identifier was written.
Sends(t, type, id) ==
  {i \in 1..Len(t) : t[i].ev = "send" /\ t[i].m.type = type /\ t[i].m.messageIdentifier = id}

\* The positions of the trace t at which the event ev is recorded.
Events(t, ev) == {i \in 1..Len(t) : t[i].ev = ev}

\* The trace t is that of a step in which a packet of this type arrived.
Arrived(t, type) == t # <<>> /\ t[1].ev = "onmessage" /\ t[1].m.type = type

SentIds == {k[2] : k \in {x \in DOMAIN storage : x[1] = "Sent:"}}
OutboxPublishIds ==
  {id \in DOMAIN _sentMessages : _sentMessages[id].type = MESSAGE_TYPE.PUBLISH}

C2_PubackStep ==
  Arrived(trace', MESSAGE_TYPE.PUBACK) =>
    LET id == trace'[1].m.messageIdentifier IN
    /\ (id \in DOMAIN _sentMessages /\ _sentMessages[id].type = MESSAGE_TYPE.PUBLISH
          /\ _sentMessages[id].qos = 1) =>
         /\ id \notin DOMAIN _sentMessages'
         /\ <<"Sent:", id>> \notin DOMAIN storage'
         /\ Cardinality(Events(trace', "onMessageDelivered")) = 1
         /\ \A i \in Events(trace', "onMessageDelivered") :
              trace'[i].m.payload = _sentMessages[id].payload
         /\ delivered'[_sentMessages[id].payload] = 1
    /\ id \notin DOMAIN _sentMessages =>
         /\ Events(trace', "onMessageDelivered") = {}
         /\ _sentMessages' = _sentMessages
         /\ storage' = storage
         /\ delivered' = delivered

C2_Puback == [][C2_PubackStep]_vars

\* A PUBACK has just completed a QoS-1 publish.
C2_Witness ==
  /\ Arrived(trace, MESSAGE_TYPE.PUBACK)
  /\ \E i \in Events(trace, "onMessageDelivered") :
       trace[i].m.qos = 1 /\ delivered[trace[i].m.payload] = 1

\* The Outbox entry id is a QoS-2 PUBLISH for which PUBREC has been received.
AwaitsPubcomp(id) ==
  /\ id \in DOMAIN _sentMessages
  /\ _sentMessages[id].type = MESSAGE_TYPE.PUBLISH
  /\ _sentMessages[id].qos = 2
  /\ _sentMessages[id].pubRecReceived

\* A CONNACK with return code 0 arrives on a new transport of a kept session.
SessionResumed ==
  /\ Arrived(trace', MESSAGE_TYPE.CONNACK)
  /\ trace'[1].m.returnCode = 0
  /\ ~connected
  /\ ~connectOptions.cleanSession

\* The step writes exactly one PUBREL and no PUBLISH for every entry that awaits PUBCOMP.
ReplaysPubrelOnly ==
  \A id \in DOMAIN _sentMessages :
    AwaitsPubcomp(id) =>
      /\ Cardinality(Sends(trace', MESSAGE_TYPE.PUBREL, id)) = 1
      /\ Sends(trace', MESSAGE_TYPE.PUBLISH, id) = {}

\* A PUBCOMP for an entry that awaits it removes the entry and its Sent: record.
PubcompCompletes ==
  (Arrived(trace', MESSAGE_TYPE.PUBCOMP) /\ AwaitsPubcomp(trace'[1].m.messageIdentifier)) =>
     /\ trace'[1].m.messageIdentifier \notin DOMAIN _sentMessages'
     /\ <<"Sent:", trace'[1].m.messageIdentifier>> \notin DOMAIN storage'

Qos2Arrived ==
  /\ Arrived(trace', MESSAGE_TYPE.PUBLISH)
  /\ trace'[1].m.qos = 2
  /\ connected

\* C4: an inbound QoS-2 PUBLISH on a connected session is not delivered in the
\* step in which it arrives (also when it is a retransmission of one already in
\* the Inbox): it is put in the Inbox and stored under Received:, and one PUBREC
\* with its identifier is written.  A PUBREL that finds the identifier in the
\* Inbox delivers that message exactly once and removes the Inbox entry and
\* the Received: record; a PUBREL that does not find it delivers nothing.
C4_InboundQos2Step ==
  /\ Qos2Arrived =>
       LET id == trace'[1].m.messageIdentifier IN
       /\ Events(trace', "onMessageArrived") = {}
       /\ id \in DOMAIN _receivedMessages'
       /\ _receivedMessages'[id].payload = trace'[1].m.payload
       /\ <<"Received:", id>> \in DOMAIN storage'
       /\ Cardinality(Sends(trace', MESSAGE_TYPE.PUBREC, id)) = 1
       /\ (DOMAIN _receivedMessages') \ {id} = (DOMAIN _receivedMessages) \ {id}
  /\ Arrived(trace', MESSAGE_TYPE.PUBREL) =>
       LET id == trace'[1].m.messageIdentifier IN
       /\ id \notin DOMAIN _receivedMessages'
       /\ <<"Received:", id>> \notin DOMAIN storage'
       /\ IF id \in DOMAIN _receivedMessages
          THEN /\ Cardinality(Events(trace', "onMessageArrived")) = 1
               /\ \A i \in Events(trace', "onMessageArrived") :
                    trace'[i].m = _receivedMessages[id]
          ELSE Events(trace', "onMessageArrived") = {}

C5_PubcompStep ==
  Arrived(trace', MESSAGE_TYPE.PUBREL) =>
    LET id == trace'[1].m.messageIdentifier IN
    IF connected
    THEN Cardinality(Sends(trace', MESSAGE_TYPE.PUBCOMP, id)) = 1
    ELSE /\ _msg_queue' # <<>>
         /\ Head(_msg_queue') = WireMessage(MESSAGE_TYPE.PUBCOMP, id)
         /\ Tail(_msg_queue') = _msg_queue

C5_PubcompAlways == [][C5_PubcompStep]_vars

\* A PUBREL that found nothing in the Inbox has just been answered with PUBCOMP.
C5_Witness ==
  /\ Arrived(trace, MESSAGE_TYPE.PUBREL)
  /\ Events(trace, "onMessageArrived") = {}
  /\ Sends(trace, MESSAGE_TYPE.PUBCOMP, trace[1].m.messageIdentifier) # {}
  /\ connected

\* The step is a failure of a connection attempt that is not an automatic
\* reconnect: the transport fails or closes, the connect timer fires, or the
\* peer refuses the connection, before the session is established.
AttemptFails ==
  /\ \/ trace'[1].ev \in {"onerror", "onclose", "connectTimeout"}
     \/ Arrived(trace', MESSAGE_TYPE.CONNACK) /\ trace'[1].m.returnCode # 0
  /\ ~connected
  /\ ~_reconnecting
  /\ socket.state # "none"

\* The step closes the transport and opens one to the next URI of the list.
TriesNextUri ==
  /\ Events(trace', "close") # {}
  /\ \E i \in Events(trace', "new WebSocket") : trace'[i].n = hostIndex + 1
  /\ hostIndex' = hostIndex + 1
  /\ socket'.state = "connecting"
  /\ socket'.url = hostIndex + 1
  /\ connectOptions' = connectOptions
  /\ Events(trace', "onFailure") = {}

\* C6 as stated: when an attempt of the initial connection fails on uris[i]
\* with i < n-1, the transport is closed and uris[i+1] is tried next, without
\* version fallback and without onFailure.
C6_Original ==
  [][(AttemptFails /\ trace'[1].ev # "onmessage" /\ connectOptions.uris > 1
        /\ hostIndex < connectOptions.uris - 1) => TriesNextUri]_vars

\* The step falls back to MQTT 3.1 and starts again at the first URI.
FallsBack ==
  /\ ~connectOptions.mqttVersionExplicit
  /\ connectOptions.mqttVersion = 4
  /\ connectOptions' = [connectOptions EXCEPT !.mqttVersion = 3]
  /\ hostIndex' = IF connectOptions.uris > 0 THEN 0 ELSE hostIndex
  /\ \E i \in Events(trace', "new WebSocket") : trace'[i].n = 0
  /\ socket' = [state |-> "connecting", url |-> 0, protocol |-> 3]
  /\ Events(trace', "onFailure") = {}

\* The step gives the connection up and reports it to connect's onFailure.
GivesUp ==
  /\ connectOptions.mqttVersionExplicit \/ connectOptions.mqttVersion = 3
  /\ Cardinality(Events(trace', "onFailure")) = 1
  /\ Events(trace', "new WebSocket") = {}
  /\ socket' = NoSocket
  /\ connectOptions' = connectOptions

\* C7: a failed attempt is followed by the next URI, by the fallback or by
\* onFailure.  The fallback happens only when the user left mqttVersion out and
\* version 4 was in use; it sets version 3 and starts again at the first URI
\* (hostIndex 0 when there is a URI list).
\* onFailure is called only when the version is the user's own or is 3; no
\* step other than connect() and the fallback changes the version.
C7_FallbackStep ==
  /\ AttemptFails => (TriesNextUri \/ FallsBack \/ GivesUp)
  /\ Events(trace', "onFailure") # {} =>
       (connectOptions.mqttVersionExplicit \/ connectOptions.mqttVersion = 3)
  /\ (trace'[1].ev # "connect()" /\ connectOptions' # connectOptions) =>
       (AttemptFails /\ FallsBack)

C7_VersionFallback == [][C7_FallbackStep]_vars

\* onFailure has just been called after the fallback to version 3 had been made.
C7_Witness ==
  /\ Events(trace, "onFailure") # {}
  /\ ~connectOptions.mqttVersionExplicit
  /\ connectOptions.mqttVersion = 3
  /\ socket = NoSocket

\* The step loses an established session that has reconnect = true.
SessionLost ==
  /\ connected
  /\ connectOptions.reconnect
  /\ \E i \in Events(trace', "onConnectionLost") : trace'[i].n # ERROR.OK

\* C8 as stated: when the session is lost the first attempt is scheduled after
\* 1 (it is not made in the same step), the reconnect timer starts an attempt
\* when it fires, and a failed attempt schedules the next one with the doubled
\* delay, at most 128.
C8_Original ==
  [][/\ SessionLost =>
          /\ Events(trace', "new WebSocket") = {}
          /\ _reconnectTimeout' = 1
     /\ trace'[1].ev = "reconnectTimeout" =>
          /\ Events(trace', "new WebSocket") # {}
          /\ _reconnectInterval' =
               IF _reconnectInterval < MaxReconnectInterval
               THEN 2 * _reconnectInterval ELSE _reconnectInterval]_vars

\* C9 as stated: connect() or disconnect() while _reconnecting cancels the
\* pending reconnect timer and sets _reconnecting to false.
C9_Original ==
  [][(trace'[1].ev \in {"connect()", "disconnect()"} /\ _reconnecting) =>
        (_reconnectTimeout' = 0 /\ ~_reconnecting')]_vars

\* C10: on a connected session with keepAliveInterval > 0, when the Pinger's
\* timer fires after a frame was written or a PINGRESP received since it last
\* fired, one PINGREQ is written and the timer runs again; when it fires and
\* neither happened, _disconnected is called with PING_TIMEOUT.  A PINGRESP and
\* every step that writes a frame and keeps the session mark the Pinger as
\* reset and restart its timer, so that the next firing is not a timeout.
C10_KeepAliveStep ==
  /\ (trace'[1].ev = "doPing" /\ connected /\ sendPinger.keepAliveInterval > 0) =>
       IF sendPinger.isReset
       THEN /\ Cardinality(Sends(trace', MESSAGE_TYPE.PINGREQ, 0)) = 1
            /\ Events(trace', "_disconnected") = {}
            /\ ~sendPinger'.isReset
            /\ sendPinger'.timeout
            /\ connected'
       ELSE /\ Events(trace', "_disconnected") # {}
            /\ \A i \in Events(trace', "_disconnected") : trace'[i].n = ERROR.PING_TIMEOUT
            /\ Sends(trace', MESSAGE_TYPE.PINGREQ, 0) = {}
  /\ (trace'[1].ev # "doPing" /\ connected /\ sendPinger.keepAliveInterval > 0
        /\ Events(trace', "_disconnected") = {}
        /\ (Arrived(trace', MESSAGE_TYPE.PINGRESP) \/ Events(trace', "send") # {})) =>
       /\ sendPinger'.isReset
       /\ sendPinger'.timeout

C10_KeepAlive == [][C10_KeepAliveStep]_vars

\* The Pinger's timer has just fired without traffic since the PINGREQ and the
\* session was lost with PING_TIMEOUT.
C10_Witness ==
  /\ trace # <<>>
  /\ trace[1].ev = "doPing"
  /\ \E i \in Events(trace, "onConnectionLost") : trace[i].n = ERROR.PING_TIMEOUT

\* The events of the trace t other than the calls of _schedule_message, in order.
EventNames(t) ==
  LET shown == SelectSeq(t, LAMBDA e : e.ev # "schedule")
  IN  [i \in 1..Len(shown) |-> shown[i].ev]

\* C11: disconnect() on a connected client writes DISCONNECT and then, in the
\* same step, tears the session down: the transport is closed and dropped,
\* connected is false, the Pinger's timer is cancelled, onConnectionLost is
\* called once with error code 0, and no reconnect is started, whatever
\* reconnect is.
C11_DisconnectStep ==
  (trace'[1].ev = "disconnect()" /\ connected) =>
     /\ EventNames(trace') =
          <<"disconnect()", "send", "_disconnected", "close", "onConnectionLost">>
     /\ Sends(trace', MESSAGE_TYPE.DISCONNECT, 0) # {}
     /\ \A i \in Events(trace', "onConnectionLost") : trace'[i].n = ERROR.OK
     /\ ~connected'
     /\ socket' = NoSocket
     /\ ~sendPinger'.timeout
     /\ ~_connectTimeout'
     /\ ~_reconnecting'
     /\ _reconnectTimeout' = 0
     /\ _msg_queue' = <<>>
     /\ _buffered_msg_queue' = <<>>

C11_Disconnect == [][C11_DisconnectStep]_vars

\* disconnect() has just ended a session that had reconnect = true and a
\* running Pinger.
C11_Witness ==
  /\ trace # <<>>
  /\ trace[1].ev = "disconnect()"
  /\ \E i \in Events(trace, "onConnectionLost") : trace[i].n = ERROR.OK
  /\ connectOptions.reconnect
  /\ sendPinger.keepAliveInterval > 0
  /\ socket = NoSocket

\* The step is one in which the peer accepts the connection.
Accepted == Arrived(trace', MESSAGE_TYPE.CONNACK) /\ trace'[1].m.returnCode = 0

\* C12: onConnectionLost is called only in a step that finds the session
\* established or establishes it, at most once, and leaves connected false, so
\* that a further call needs a new CONNACK; onFailure is called only in a
\* step that neither finds nor makes the session established, at most once,
\* and never together with onConnectionLost.
C12_LostOrFailedStep ==
  /\ Events(trace', "onConnectionLost") # {} =>
       /\ connected \/ Accepted
       /\ Cardinality(Events(trace', "onConnectionLost")) = 1
       /\ ~connected'
  /\ Events(trace', "onFailure") # {} =>
       /\ ~connected
       /\ ~Accepted
       /\ Cardinality(Events(trace', "onFailure")) = 1
       /\ Events(trace', "onConnectionLost") = {}
       /\ ~connected'

C12_LostOrFailed == [][C12_LostOrFailedStep]_vars

\* An established session has just been lost with an error.
C12_Witness ==
  /\ \E i \in Events(trace, "onConnectionLost") : trace[i].n # ERROR.OK
  /\ Events(trace, "onFailure") = {}
  /\ ~connected

\* The packets of the events ev of the trace t, in order.
PacketsOf(t, ev) ==
  LET chosen == SelectSeq(t, LAMBDA e : e.ev = ev)
  IN  [i \in 1..Len(chosen) |-> chosen[i].m]

\* The packets the trace t wrote from the outbound queue, in order: every
\* frame but CONNECT and PINGREQ, which are written past the queue.
Written(t) ==
  LET chosen == SelectSeq(t, LAMBDA e :
                   e.ev = "send" /\ e.m.type \notin {MESSAGE_TYPE.CONNECT, MESSAGE_TYPE.PINGREQ})
  IN  [i \in 1..Len(chosen) |-> chosen[i].m]

\* The event that follows every written packet with a hook is that hook.
HooksFire(t) ==
  \A i \in 1..Len(t) :
    (t[i].ev = "send" /\ t[i].m.onDispatched # "") =>
       /\ i < Len(t)
       /\ t[i + 1].ev = t[i].m.onDispatched
       /\ t[i].m.onDispatched = "onMessageDelivered" => t[i + 1].m = t[i].m

\* C13: in a step that does not tear the session down, the packets queued
\* before it (oldest first) followed by the packets it schedules are the
\* packets it writes followed by the packets it leaves queued (oldest first):
\* every packet is written once, none is skipped, and the order is the order
\* of scheduling; nothing stays queued on a connected session; every written
\* packet that has a hook is followed by one call of that hook.
C13_QueueStep ==
  /\ Events(trace', "_disconnected") = {} =>
       /\ Reverse(_msg_queue) \o PacketsOf(trace', "schedule")
            = Written(trace') \o Reverse(_msg_queue')
       /\ connected' => _msg_queue' = <<>>
       /\ ~connected' => Written(trace') = <<>>
  /\ HooksFire(trace')
  /\ Cardinality({i \in Events(trace', "onMessageDelivered") : trace'[i].m.qos = 0})
       = Cardinality({i \in Events(trace', "send") :
                        trace'[i].m.onDispatched = "onMessageDelivered"})

C13_QueueOrder == [][C13_QueueStep]_vars

\* A CONNACK has just drained two packets that were queued before it and a
\* replayed message after them.
C13_Witness ==
  /\ Arrived(trace, MESSAGE_TYPE.CONNACK)
  /\ Events(trace, "_disconnected") = {}
  /\ Len(Written(trace)) >= 3
  /\ Len(PacketsOf(trace, "schedule")) <= Len(Written(trace)) - 2
  /\ PacketsOf(trace, "schedule") # <<>>

\* C14: a step in which _requires_ack allocates adds exactly one key to the
\* Outbox, a key that was absent before, and leaves every entry that was in
\* the Outbox as it was.
C14_AllocationStep ==
  (trace'[1].ev = "_requires_ack" /\ Events(trace', "throw") = {}) =>
     /\ Cardinality((DOMAIN _sentMessages') \ DOMAIN _sentMessages) = 1
     /\ \A id \in DOMAIN _sentMessages :
          id \in DOMAIN _sentMessages' /\ _sentMessages'[id] = _sentMessages[id]
     /\ \A id \in (DOMAIN _sentMessages') \ DOMAIN _sentMessages :
          _sentMessages'[id].messageIdentifier = id

C14_FreshIdentifier == [][C14_AllocationStep]_vars

\* An allocation has just skipped over occupied identifiers: an identifier
\* below the last one assigned is free and one above the first is in use.
C14_Witness ==
  /\ trace # <<>>
  /\ trace[1].ev = "_requires_ack"
  /\ Events(trace, "throw") = {}
  /\ Cardinality(DOMAIN _sentMessages) >= 2
  /\ \E id \in DOMAIN _sentMessages : id > 1 /\ (id - 1) \notin DOMAIN _sentMessages

\* C15 as stated, with the maximum identifier scaled down to MaxIdentifier:
\* every identifier in use lies in 1 .. MaxIdentifier - 1.
C15_Original ==
  \A id \in DOMAIN _sentMessages : id \in 1..(MaxIdentifier - 1)

\* The stored sequence numbers of the messages the trace t scheduled, in
\* order; a PUBREL stands for the Outbox entry it completes, and a message
\* without sequence number (SUBSCRIBE, UNSUBSCRIBE) is left out.
ReplayedSequences(t, outbox) ==
  LET replayed == PacketsOf(t, "schedule")
      sequences == [i \in 1..Len(replayed) |->
                      IF replayed[i].type = MESSAGE_TYPE.PUBREL
                      THEN outbox[replayed[i].messageIdentifier].sequence
                      ELSE replayed[i].sequence]
  IN  SelectSeq(sequences, LAMBDA n : n # 0)

StrictlyIncreasing(list) == \A i, j \in 1..Len(list) : i < j => list[i] < list[j]

\* C16 as stated: in the step of an accepted CONNACK the replayed messages
\* are scheduled in strictly increasing stored sequence.
C16_ReplayStep == Accepted => StrictlyIncreasing(ReplayedSequences(trace', _sentMessages'))

C17_CleanStep ==
  (Arrived(trace', MESSAGE_TYPE.CONNACK) /\ connectOptions.cleanSession) =>
     /\ DOMAIN _sentMessages' = {}
     /\ DOMAIN _receivedMessages' = {}
     /\ DOMAIN storage' = {}

ErrorCodes == {ERROR[name] : name \in DOMAIN ERROR} \cup {Undefined}

\* The step removes the storage record k for a reason the claim allows.
RemovedByAcknowledgement(k) ==
  \/ Arrived(trace', MESSAGE_TYPE.CONNACK) /\ connectOptions.cleanSession
  \/ /\ k[1] = "Sent:"
     /\ Arrived(trace', MESSAGE_TYPE.PUBACK) \/ Arrived(trace', MESSAGE_TYPE.PUBCOMP)
     /\ trace'[1].m.messageIdentifier = k[2]
  \/ /\ k[1] = "Received:"
     /\ Arrived(trace', MESSAGE_TYPE.PUBREL)
     /\ trace'[1].m.messageIdentifier = k[2]

\* _disconnected applied to the present state, with any error code, leaves
\* the Outbox, the Inbox and the storage as they are.
DisconnectedKeeps ==
  \A code \in ErrorCodes :
    LET s == _disconnected(St, code)
    IN  /\ s._sentMessages = _sentMessages
        /\ s._receivedMessages = _receivedMessages
        /\ s.storage = storage

\* Every step in which a call, a transport event or a timer runs _disconnected
\* leaves them as they are too, and a step removes a Sent: or Received: record
\* only when it handles a PUBACK or PUBCOMP (Sent:) or a PUBREL (Received:)
\* with the identifier of the record, or a CONNACK on a connection with
\* cleanSession true.
C18_PersistedStep ==
  /\ (Events(trace', "_disconnected") # {} /\ trace'[1].ev # "onmessage") =>
       /\ _sentMessages' = _sentMessages
       /\ _receivedMessages' = _receivedMessages
       /\ storage' = storage
  /\ \A k \in (DOMAIN storage) \ DOMAIN storage' : RemovedByAcknowledgement(k)

\* C18: _disconnected, with any error code and in any state, leaves the
\* Outbox, the Inbox and the Sent:/Received: records unchanged, and the
\* records are removed only by the matching PUBACK, PUBCOMP or PUBREL or by a
\* clean-session CONNACK.
C18_Persisted == []DisconnectedKeeps /\ [][C18_PersistedStep]_vars

\* A session with a message in flight and its record has just been torn down.
C18_Witness ==
  /\ Events(trace, "_disconnected") # {}
  /\ Events(trace, "onConnectionLost") # {}
  /\ DOMAIN _sentMessages # {}
  /\ \E k \in DOMAIN storage : k[1] = "Sent:"

\* The step handles an acknowledgement whose identifier is not in the Outbox.
StrayAckArrives ==
  /\ trace' # <<>>
  /\ trace'[1].ev = "onmessage"
  /\ trace'[1].m.type \in AckTypes
  /\ trace'[1].m.messageIdentifier \notin DOMAIN _sentMessages

\* C19: a PUBACK, PUBREC, PUBCOMP, SUBACK or UNSUBACK whose identifier is not
\* in the Outbox changes nothing: the step records the arrival only (no frame
\* written, no callback), and the Outbox, the Inbox, the storage, the queues
\* and everything else of the client's state stay as they were.
C19_StrayStep ==
  StrayAckArrives =>
    /\ Len(trace') = 1
    /\ UNCHANGED <<connected, socket, connectOptions, hostIndex, _wsuri, _reconnecting,
                   _reconnectTimeout, _connectTimeout, _reconnectInterval, _msg_queue,
                   _buffered_msg_queue, _sentMessages, _receivedMessages, storage,
                   _message_identifier, _sequence, sendPinger, stalePingers,
                   disconnectedPublishing, timeOuts, receiveBuffer, sendCount,
                   subscribeCount, delivered>>

C19_StrayAck == [][C19_StrayStep]_vars

\* An acknowledgement with an identifier that is not in the Outbox has arrived
\* on an established session that has another message in flight.
C19_Witness ==
  /\ trace # <<>>
  /\ trace[1].ev = "onmessage"
  /\ trace[1].m.type \in AckTypes
  /\ trace[1].m.messageIdentifier \notin DOMAIN _sentMessages
  /\ Len(trace) = 1
  /\ connected
  /\ DOMAIN _sentMessages # {}

\* C20 as stated: a DISCONNECT, or a packet of a type the client does not
\* accept, that arrives on an open transport makes the step call
\* _disconnected with INVALID_MQTT_MESSAGE_TYPE, close and drop that transport
\* and leave connected false.
C20_FatalStep ==
  (\/ Arrived(trace', MESSAGE_TYPE.DISCONNECT)
   \/ Arrived(trace', MESSAGE_TYPE.PINGREQ)) =>
     /\ \E i \in Events(trace', "_disconnected") :
          trace'[i].n = ERROR.INVALID_MQTT_MESSAGE_TYPE
     /\ \E i \in Events(trace', "close") : trace'[i].n = socket.url
     /\ socket' # socket
     /\ ~connected'

C20_Original == [][C20_FatalStep]_vars

\* The step handles the SUBACK of a pending SUBSCRIBE, one return code per
\* topic filter.
SubackArrives ==
  /\ Arrived(trace', MESSAGE_TYPE.SUBACK)
  /\ trace'[1].m.messageIdentifier \in DOMAIN _sentMessages
  /\ _sentMessages[trace'[1].m.messageIdentifier].type = MESSAGE_TYPE.SUBSCRIBE
  /\ Len(trace'[1].m.returnCodes) = _sentMessages[trace'[1].m.messageIdentifier].topics

AnyFailure(codes) == \E i \in 1..Len(codes) : codes[i] = 128

\* C21 as stated: on the SUBACK of a pending SUBSCRIBE onFailure is called if
\* any return code is 0x80, and onSuccess only if none is.
C21_SubackStep ==
  SubackArrives =>
    /\ AnyFailure(trace'[1].m.returnCodes) => Events(trace', "subscribe.onFailure") # {}
    /\ Events(trace', "subscribe.onSuccess") # {} => ~AnyFailure(trace'[1].m.returnCodes)

C21_Original == [][C21_SubackStep]_vars

\* The step handles the SUBACK of a pending SUBSCRIBE or the UNSUBACK of a
\* pending UNSUBSCRIBE.
RequestAcknowledged ==
  /\ Arrived(trace', MESSAGE_TYPE.SUBACK) \/ Arrived(trace', MESSAGE_TYPE.UNSUBACK)
  /\ trace'[1].m.messageIdentifier \in DOMAIN _sentMessages
  /\ _sentMessages[trace'[1].m.messageIdentifier].type =
       (IF trace'[1].m.type = MESSAGE_TYPE.SUBACK
        THEN MESSAGE_TYPE.SUBSCRIBE ELSE MESSAGE_TYPE.UNSUBSCRIBE)

\* The pending timers of the request that the Outbox holds under id.
TimersOf(id) == {timer \in timeOuts : timer.request = _sentMessages[id].timeOut}

\* C22 as stated: when the SUBACK or UNSUBACK of a pending request arrives
\* while the timer of the request is pending, the step cancels the timer,
\* calls the completion callback of the request and removes the Outbox entry.
C22_AcknowledgedStep ==
  (RequestAcknowledged /\ TimersOf(trace'[1].m.messageIdentifier) # {}) =>
    /\ TimersOf(trace'[1].m.messageIdentifier) \cap timeOuts' = {}
    /\ \/ Events(trace', "subscribe.onSuccess") # {}
       \/ Events(trace', "subscribe.onFailure") # {}
       \/ Events(trace', "unsubscribe.onSuccess") # {}
    /\ trace'[1].m.messageIdentifier \notin DOMAIN _sentMessages'

C22_Original == [][C22_AcknowledgedStep]_vars

\* C23 as stated: the timer of a request firing, or the SUBACK of a pending
\* SUBSCRIBE carrying 0x80, calls the onFailure of the request and leaves the
\* connection alone: connected and the transport are as before and
\* _disconnected is not called.
C23_RequestFailsStep ==
  (\/ trace'[1].ev = "timeOut"
   \/ /\ RequestAcknowledged
      /\ trace'[1].m.type = MESSAGE_TYPE.SUBACK
      /\ AnyFailure(trace'[1].m.returnCodes)) =>
    /\ \/ Events(trace', "subscribe.onFailure") # {}
       \/ Events(trace', "unsubscribe.onFailure") # {}
    /\ connected' = connected
    /\ socket' = socket
    /\ Events(trace', "_disconnected") = {}

C23_Original == [][C23_RequestFailsStep]_vars

\* The call of the step raised INVALID_STATE or BUFFER_FULL.
CallRejected ==
  \E i \in Events(trace', "throw") :
    trace'[i].n \in {ERROR.INVALID_STATE, ERROR.BUFFER_FULL}

\* C24: a call that raises INVALID_STATE or BUFFER_FULL does nothing else: the
\* step records the call and the error only, and the Outbox, the Inbox, the
\* storage, the queues, the identifier cursor, the sequence counter, the
\* timers and the connection state are as before the call.
C24_RejectedStep ==
  CallRejected =>
    /\ Len(trace') = 2
    /\ UNCHANGED <<connected, socket, connectOptions, hostIndex, _wsuri, _reconnecting,
                   _reconnectTimeout, _connectTimeout, _reconnectInterval, _msg_queue,
                   _buffered_msg_queue, _sentMessages, _receivedMessages, storage,
                   _message_identifier, _sequence, sendPinger, stalePingers,
                   disconnectedPublishing, timeOuts, receiveBuffer>>

C24_Rejected == [][C24_RejectedStep]_vars

\* send() has just raised BUFFER_FULL while the client is reconnecting with
\* messages in the Outbox and in the disconnected-publish buffer.
C24_Witness ==
  /\ \E i \in Events(trace, "throw") : trace[i].n = ERROR.BUFFER_FULL
  /\ trace[1].ev = "send()"
  /\ _reconnecting
  /\ DOMAIN _sentMessages # {}
  /\ _buffered_msg_queue # <<>>

\* The step is a send() of a QoS-0 message that the client accepts while it
\* is reconnecting with disconnectedPublishing enabled.
BufferedSend ==
  /\ trace'[1].ev = "send()"
  /\ trace'[1].m.qos = 0
  /\ Events(trace', "throw") = {}
  /\ ~connected /\ _reconnecting /\ disconnectedPublishing

\* The buffered messages among the packets the trace t wrote, in order.
WrittenFromBuffer(t) ==
  SelectSeq(Written(t), LAMBDA m : m.type = MESSAGE_TYPE.PUBLISH /\ m.qos = 0 /\ m.sequence # 0)

\* C25 as stated: the accepted message goes to the front of the buffer with
\* the next sequence number, and the step of the next accepted CONNACK writes
\* every buffered message once, in the order of acceptance, and empties the
\* buffer.
C25_BufferStep ==
  /\ BufferedSend =>
       /\ _sequence' = _sequence + 1
       /\ _buffered_msg_queue' =
            <<[PublishMessage(trace'[1].m.payload, 0) EXCEPT !.sequence = _sequence + 1]>>
              \o _buffered_msg_queue
  /\ Accepted =>
       /\ WrittenFromBuffer(trace') = Reverse(_buffered_msg_queue)
       /\ _buffered_msg_queue' = <<>>

TornDown == Events(trace', "_disconnected") # {} /\ socket'.state = "none"

\* C29 as stated: after a step that ran _disconnected no timer of the torn-down
\* session is pending (connect timeout, keep-alive, reconnect, the timers of
\* subscribe and unsubscribe requests), the old transport is closed, and the
\* outbound queue and the disconnected-publish buffer are empty.
C29_TornDownStep ==
  Events(trace', "_disconnected") # {} =>
    /\ timeOuts' = {}
    /\ TornDown => ~_connectTimeout' /\ ~sendPinger'.timeout /\ _reconnectTimeout' = 0
    /\ socket.state # "none" => \E i \in Events(trace', "close") : trace'[i].n = socket.url
    /\ _msg_queue' = <<>>
    /\ _buffered_msg_queue' = <<>>

C29_Original == [][C29_TornDownStep]_vars

\* C30 as stated: the step of an accepted CONNACK schedules PUBLISH and PUBREL
\* packets only; the SUBSCRIBE and UNSUBSCRIBE entries of the Outbox are not
\* sent again.
C30_PublishOnlyStep ==
  Accepted =>
    \A i \in Events(trace', "schedule") :
      trace'[i].m.type \in {MESSAGE_TYPE.PUBLISH, MESSAGE_TYPE.PUBREL}

C30_Original == [][C30_PublishOnlyStep]_vars

\* What the replay schedules for an entry of the replay list.
ReplayForm(sentMessage) ==
  IF sentMessage.type = MESSAGE_TYPE.PUBLISH /\ sentMessage.pubRecReceived
  THEN WireMessage(MESSAGE_TYPE.PUBREL, sentMessage.messageIdentifier)
  ELSE sentMessage

Occurrences(list, m) == Cardinality({i \in 1..Len(list) : list[i] = m})

\* C30, amended: the step of an accepted CONNACK schedules every entry that
\* the Outbox holds after the session clean-up, SUBSCRIBE and UNSUBSCRIBE
\* entries included, and every buffered message, each once: a PUBLISH entry
\* with pubRecReceived as a PUBREL of its identifier, every other entry as it
\* is; nothing else is scheduled.
C30_ReplayAllStep ==
  Accepted =>
    LET scheduled == PacketsOf(trace', "schedule")
        expected  == [id \in DOMAIN _sentMessages' |-> ReplayForm(_sentMessages'[id])]
    IN  /\ Len(scheduled) = Cardinality(DOMAIN _sentMessages') + Len(_buffered_msg_queue)
        /\ \A id \in DOMAIN _sentMessages' : Occurrences(scheduled, expected[id]) = 1
        /\ \A i \in 1..Len(_buffered_msg_queue) :
             Occurrences(scheduled, _buffered_msg_queue[i]) = 1

C30_ReplayAll == [][C30_ReplayAllStep]_vars

\* An accepted CONNACK has scheduled a SUBSCRIBE left in the Outbox again.
C30_Witness ==
  /\ Arrived(trace, MESSAGE_TYPE.CONNACK)
  /\ trace[1].m.returnCode = 0
  /\ \E i \in Events(trace, "schedule") :
       /\ trace[i].m.type = MESSAGE_TYPE.SUBSCRIBE
       /\ trace[i].m.messageIdentifier \in DOMAIN _sentMessages

\* C27: encodeMBI(n) is 1 to 4 bytes, of which every one but the last has the
\* continuation bit set, and the remaining length that decodeMessage reads
\* from these bytes is n, for the n from 0 to 268435455.
C27_RoundTrip ==
  /\ output.mbi # <<>> =>
       /\ Len(output.mbi) \in 1..4
       /\ \A i \in 1..Len(output.mbi) : (output.mbi[i] >= 128) <=> (i < Len(output.mbi))
  /\ output.remLength # Undefined => output.remLength = input

\* The largest number has gone through both functions, as four bytes.
C27_Witness ==
  /\ input = MaxMBI
  /\ output.mbi = <<255, 255, 255, 127>>
  /\ output.remLength = MaxMBI

\* What decoding the first n bytes of the stream in one piece returns.
Unsplit(n) == Deframe(<<>>, SubSeq(input, 1, n))

\* C26 as stated: whatever the chunks were, the packets that _deframeMessages
\* has returned after n bytes of the stream are the packets that decoding
\* these n bytes in one piece returns, in the same order, and after the last
\* chunk of the stream receiveBuffer is empty.
C26_Original ==
  /\ output.messages = Unsplit(output.fed).messages
  /\ output.fed = Len(input) => receiveBuffer = <<>>

\* C28 as stated: for a well-formed frame of any type but CONNECT,
\* decodeMessage returns a packet, and encode of that packet is the frame.
C28_Original ==
  /\ output.decoded => ~output.thrown
  /\ output.encoded # <<>> => output.encoded = input

(***************************************************************************)
(* A client object constructed over a storage that already holds records:  *)
(* the constructor and restore().                                          *)
(***************************************************************************)
\* The error a call stack overflow raises; it is not one of the ERROR codes.
RangeError == -2

Thrown(s) == \E i \in 1..Len(s.trace) : s.trace[i].ev = "throw"

\* restore(key).  The record is parsed and copied into a WireMessage as it is,
\* whatever its version; a PUBLISH record then gets its Message rebuilt through
\* the setters qos and destinationName, and a record of another type is
\* rejected.  The entry is filed by the prefix of the key.
restore(s, key) ==
  LET storedMessage == s.storage[key]
      wireMessage == [NoMsg EXCEPT !.type = storedMessage.type,
                                   !.messageIdentifier = storedMessage.messageIdentifier,
                                   !.pubRecReceived = storedMessage.pubRecReceived,
                                   !.sequence = storedMessage.sequence,
                                   !.payload = storedMessage.payloadHex,
                                   !.qos = storedMessage.qos,
                                   !.duplicate = storedMessage.duplicate]
  IN  IF storedMessage.type # MESSAGE_TYPE.PUBLISH THEN Throw(s, ERROR.INVALID_STORED_DATA)
      ELSE IF AccessorThrows THEN Throw(s, RangeError)
      ELSE IF key[1] = "Sent:"
        THEN IF wireMessage.messageIdentifier # 0
               THEN [s EXCEPT !._sentMessages =
                       Put(@, wireMessage.messageIdentifier, [wireMessage EXCEPT !.duplicate = TRUE])]
               ELSE s
        ELSE IF wireMessage.messageIdentifier # 0
               THEN [s EXCEPT !._receivedMessages = Put(@, wireMessage.messageIdentifier, wireMessage)]
               ELSE s

\* Object.keys(this.storage).forEach(...): the loop ends at the first key whose
\* restore throws.
RECURSIVE RestoreKeys(_, _)
RestoreKeys(s, keys) ==
  IF keys = {} \/ Thrown(s) THEN s
  ELSE LET key == CHOOSE k \in keys : TRUE
       IN  RestoreKeys(restore(s, key), keys \ {key})

\* The constructor: the fields take their initial values, the storage is the
\* one handed in, and every Sent: and Received: record of this client is
\* restored.  The timers and the transport of an earlier object are gone.
constructor(s) ==
  RestoreKeys([s EXCEPT !.connected = FALSE,
                        !.socket = NoSocket,
                        !.hostIndex = 0,
                        !._wsuri = 0,
                        !._reconnecting = FALSE,
                        !._reconnectTimeout = 0,
                        !._connectTimeout = FALSE,
                        !._reconnectInterval = 1,
                        !._msg_queue = <<>>,
                        !._buffered_msg_queue = <<>>,
                        !._sentMessages = EmptyMap,
                        !._receivedMessages = EmptyMap,
                        !._message_identifier = 1,
                        !._sequence = 0,
                        !.sendPinger = NoPinger,
                        !.stalePingers = {},
                        !.disconnectedPublishing = FALSE,
                        !.timeOuts = {},
                        !.receiveBuffer = <<>>],
              DOMAIN s.storage)

\* A constructor that threw leaves the application without a client.
ConstructionFailed ==
  /\ trace # <<>>
  /\ trace[1].ev = "constructor"
  /\ \E i \in 1..Len(trace) : trace[i].ev = "throw"


(***************************************************************************)
(* Restarts: one persistent session in which the application publishes     *)
(* with QoS 1 and 2, the peer answers with CONNACK and PUBREC and sends     *)
(* exactly-once messages, and the application is started again.            *)
(***************************************************************************)
RestartPackets ==
  {p \in InboundPackets :
     \/ p.type = MESSAGE_TYPE.CONNACK /\ p.returnCode = 0
     \/ p.type = MESSAGE_TYPE.PUBREC
     \/ p.type = MESSAGE_TYPE.PUBLISH /\ p.qos = 2}

SendStored ==
  /\ sendCount < MaxSend
  /\ \E qos \in 1..2 :
       LET message == PublishMessage(sendCount + 1, qos)
       IN  Commit(send(Begin(Ev("send()", message, 0)), message))

\* Before the application first runs, the storage may hold a record that
\* another release of the library wrote under this client's key.
ForeignRecord ==
  /\ trace = <<>>
  /\ DOMAIN storage = {}
  /\ \E prefix \in {"Sent:", "Received:"}, version \in {1, 2} :
       storage' = Put(storage, <<prefix, 1>>,
                      [StoredMessage(prefix, [PublishMessage(1, 2) EXCEPT
                                                !.messageIdentifier = 1, !.sequence = 1])
                         EXCEPT !.version = version])
  /\ UNCHANGED <<connected, socket, connectOptions, hostIndex, _wsuri, _reconnecting,
                 _reconnectTimeout, _connectTimeout, _reconnectInterval, _msg_queue,
                 _buffered_msg_queue, _sentMessages, _receivedMessages,
                 _message_identifier, _sequence, sendPinger, stalePingers,
                 disconnectedPublishing, timeOuts, receiveBuffer, input, output, trace,
                 sendCount, subscribeCount, delivered>>

\* A constructor that threw leaves no client to call and no transport to
\* call back.
RestartConnect == ~ConstructionFailed /\ ReplayConnect
RestartSend == ~ConstructionFailed /\ SendStored
RestartOpen == ~ConstructionFailed /\ SocketOpen
RestartMessage == ~ConstructionFailed /\ SocketMessageFrom(RestartPackets)
RestartClose == ~ConstructionFailed /\ SocketClose
Restart == ~ConstructionFailed /\ Commit(constructor(Begin(Ev("constructor", NoMsg, 0))))

NextRestart ==
  \/ ForeignRecord
  \/ RestartConnect
  \/ RestartSend
  \/ RestartOpen
  \/ RestartMessage
  \/ RestartClose
  \/ Restart

SpecRestart == Init /\ [][NextRestart]_vars

(***************************************************************************)
(* Properties of restore() and of the constructor                          *)
(***************************************************************************)
RestartStep == trace' # <<>> /\ trace'[1].ev = "constructor"

SentKeys(store_) == {k \in DOMAIN store_ : k[1] = "Sent:"}

\* The entry restore() must file for a key: the fields of the record, under
\* the identifier of the record, with duplicate set for a Sent: key.
RebuiltFrom(key, entries) ==
  /\ key[2] \in DOMAIN entries
  /\ StoredMessage(key[1], entries[key[2]]) =
       [storage[key] EXCEPT !.duplicate = (key[1] = "Sent:") \/ @]
  /\ key[1] = "Sent:" => entries[key[2]].duplicate

\* C31: every PUBLISH record that store() wrote is rebuilt by restore with the
\* same messageIdentifier, payload, qos, pubRecReceived flag and sequence, in
\* the Outbox for a Sent: key (with duplicate = true) and in the Inbox for a
\* Received: key.
C31_Original ==
  [][RestartStep =>
       \A key \in DOMAIN storage :
         storage[key].version = 1 =>
           RebuiltFrom(key, IF key[1] = "Sent:" THEN _sentMessages' ELSE _receivedMessages')]_vars

\* C32: a constructor that finds a record whose version is not 1 raises
\* INVALID_STORED_DATA and files nothing for that record.
C32_Original ==
  [][RestartStep =>
       \A key \in DOMAIN storage :
         storage[key].version # 1 =>
           /\ \E i \in 1..Len(trace') :
                trace'[i].ev = "throw" /\ trace'[i].n = ERROR.INVALID_STORED_DATA
           /\ key[2] \notin DOMAIN _sentMessages'
           /\ key[2] \notin DOMAIN _receivedMessages']_vars

\* C33: a client constructed over Sent: records exists and numbers what it
\* stores from then on above every restored record: its sequence counter is
\* at least the sequence of every Sent: record.
C33_Original ==
  [][RestartStep /\ SentKeys(storage) # {} =>
       /\ ~ConstructionFailed'
       /\ \A key \in SentKeys(storage) : storage[key].sequence <= _sequence']_vars

(***************************************************************************)
(* Properties of send() while the client is reconnecting                   *)
(***************************************************************************)
AcceptedWhileReconnecting ==
  /\ trace'[1].ev = "send()"
  /\ Events(trace', "throw") = {}
  /\ ~connected /\ _reconnecting /\ disconnectedPublishing

BufferedOptions ==
  {FormatConnectOptions(0, cleanSession, TRUE, 3, 0) : cleanSession \in BOOLEAN}

BufferedConnect == ConnectWith(BufferedOptions)

SendReconnecting ==
  /\ sendCount < MaxSend
  /\ ~connected /\ _reconnecting /\ disconnectedPublishing
  /\ \E qos \in 0..2 :
       LET message == PublishMessage(sendCount + 1, qos)
       IN  Commit(send(Begin(Ev("send()", message, 0)), message))

NextBuffered ==
  \/ BufferedConnect
  \/ SetDisconnectedPublishing
  \/ SendReconnecting
  \/ SocketOpen
  \/ ReplayMessage
  \/ SocketClose

SpecBuffered == Init /\ [][NextBuffered]_vars

OutboxPublishes(entries) ==
  {id \in DOMAIN entries : entries[id].type = MESSAGE_TYPE.PUBLISH}

WrittenNow(id) ==
  Sends(trace', MESSAGE_TYPE.PUBLISH, id) # {} \/ Sends(trace', MESSAGE_TYPE.PUBREL, id) # {}

WrittenQos0(p) ==
  {i \in Events(trace', "send") :
     /\ trace'[i].m.type = MESSAGE_TYPE.PUBLISH
     /\ trace'[i].m.qos = 0
     /\ trace'[i].m.payload = p}

DeliveredCalls(p) ==
  {i \in Events(trace', "onMessageDelivered") : trace'[i].m.payload = p}

DisconnectPending(queue) ==
  \E i \in 1..Len(queue) : queue[i].type = MESSAGE_TYPE.DISCONNECT

\* C35: once disconnect() has returned without raising, and until connect()
\* is called, the client opens no transport, reports no connection and is not
\* connected.
C35_Original ==
  [][DisconnectPending(_msg_queue) /\ trace'[1].ev # "connect()" =>
       /\ ~connected'
       /\ Events(trace', "new WebSocket") = {}
       /\ Events(trace', "onConnected") = {}]_vars

(***************************************************************************)
(* Properties of the transports the client creates                         *)
(***************************************************************************)
TransportEvents(t) == SelectSeq(t, LAMBDA e : e.ev \in {"new WebSocket", "close"})

\* C36: whenever _doConnect creates a transport, the client holds no other
\* one: the previous transport was detached and closed, earlier or in the same
\* step, so at most one transport has the callbacks of the client attached.
C36_OneTransport ==
  [][LET events == TransportEvents(trace')
     IN  \A i \in 1..Len(events) :
           events[i].ev = "new WebSocket" =>
             IF i = 1 THEN socket.state = "none" ELSE events[i - 1].ev = "close"]_vars

\* A session was lost and the automatic reconnect has opened the next
\* transport in the same step, after closing the one it replaces.
C36_Witness ==
  /\ _reconnecting
  /\ socket.state = "connecting"
  /\ LET events == TransportEvents(trace)
     IN  Len(events) = 2 /\ events[1].ev = "close" /\ events[2].ev = "new WebSocket"

(***************************************************************************)
(* Frames that carry several packets: _on_socket_message hands every       *)
(* packet of the frame to _handleMessage, one after the other.             *)
(***************************************************************************)
\* the body of the loop: one packet of the frame
HandleNext(s, wireMessage) ==
  _handleMessage(Log(s, Ev("_handleMessage", wireMessage, 0)), wireMessage, <<>>)

BurstPackets ==
  {p \in InboundPackets :
     \/ p.type = MESSAGE_TYPE.DISCONNECT
     \/ p.type = MESSAGE_TYPE.PUBLISH /\ p.messageIdentifier = 1
     \/ p.type = MESSAGE_TYPE.PUBREL /\ p.messageIdentifier = 1
     \/ p.type = MESSAGE_TYPE.PUBREC /\ p.messageIdentifier = 1}

BurstConnack == SocketMessageFrom(ReplayPackets)

\* _on_socket_message with a frame of two packets
SocketFrame ==
  /\ socket.state = "open"
  /\ \E first \in BurstPackets, second \in BurstPackets :
       \E s1 \in {HandleNext(Begin(Ev("onmessage", NoMsg, 2)), first)} :
         \E s2 \in {HandleNext(s1, second)} :
           Len(s2._msg_queue) <= MaxQueue + 1 /\ Commit(s2)

NextBurst ==
  \/ AckConnect
  \/ SendExactlyOnce
  \/ SocketOpen
  \/ BurstConnack
  \/ SocketFrame
  \/ SocketClose

SpecBurst == Init /\ [][NextBurst]_vars

\* The events of a step that follow the first teardown of the step.
AfterTeardown(t) ==
  LET torn == Events(t, "_disconnected")
  IN  IF torn = {} THEN {}
      ELSE {i \in 1..Len(t) : \A j \in torn : j < i}

FirstPacketTearsDown(t) ==
  /\ Len(t) >= 3
  /\ t[1].ev = "onmessage" /\ t[2].ev = "_handleMessage" /\ t[3].ev = "_disconnected"

\* C37: the packets of a frame that follow the packet on which _disconnected
\* tore the session down are not processed: they call no onMessageArrived,
\* queue no acknowledgement, and leave the Outbox and the Inbox as they were.
C37_Original ==
  [][/\ \A i \in AfterTeardown(trace') :
          trace'[i].ev \notin {"onMessageArrived", "schedule"}
     /\ FirstPacketTearsDown(trace') =>
          /\ _sentMessages' = _sentMessages
          /\ _receivedMessages' = _receivedMessages
          /\ _msg_queue' = <<>>]_vars

(***************************************************************************)
(* Connection attempts without automatic reconnect: the application calls  *)
(* connect() and disconnect(), the peer sends CONNACK and DISCONNECT       *)
(* packets, the transport fails, and the connect timer fires.  A timer set *)
(* with setTimeout fires unless it is cleared, which is the weak fairness  *)
(* of ConnectTimeout.                                                      *)
(***************************************************************************)
AttemptOptions ==
  {FormatConnectOptions(uris, TRUE, FALSE, mqttVersion, 0) :
     uris \in 0..MaxUris, mqttVersion \in {0, 3}}

AttemptPackets ==
  {p \in InboundPackets : p.type \in {MESSAGE_TYPE.CONNACK, MESSAGE_TYPE.DISCONNECT}}

AttemptConnect == ConnectWith(AttemptOptions)
AttemptMessage == SocketMessageFrom(AttemptPackets)

NextAttempt ==
  \/ AttemptConnect
  \/ Disconnect
  \/ SocketOpen
  \/ AttemptMessage
  \/ SocketError
  \/ SocketClose
  \/ ConnectTimeout

SpecAttempt == Init /\ [][NextAttempt]_vars

FairSpecAttempt == SpecAttempt /\ WF_vars(ConnectTimeout)

\* The calls of connectOptions.onSuccess and connectOptions.onFailure in a step
Outcomes(t) == Events(t, "onSuccess") \cup Events(t, "onFailure")

\* A connect() call is answered while its connect timer is armed.
AttemptPending == _connectTimeout

\* C40: with reconnect = false an accepted connect() arms the connect timer;
\* the attempt ends, under fair firing of the timer, and exactly one of
\* onSuccess and onFailure is called for it: the step that ends the attempt
\* makes one call, and no step makes a call when no attempt is pending.
C40_Original ==
  /\ [][/\ Cardinality(Outcomes(trace')) <= 1
        /\ Outcomes(trace') # {} => AttemptPending
        /\ AttemptPending /\ ~AttemptPending' => Cardinality(Outcomes(trace')) = 1]_vars
  /\ (AttemptPending ~> ~AttemptPending)

====
